---- MODULE Spec2Model ----
(***************************************************************************)
(* Model of the RST tool chain of simuleite/scip:                          *)
(*   - buildRST        (parse command): documents -> Relation Symbol Table *)
(*   - parseMain/writeRST: temp-file write, sync, rename of one partition  *)
(*   - the TUI browser (model.Update): Overview / Detail modes, async      *)
(*     loads, jump stack.                                                  *)
(*   - single calls of the lookups and helpers (getSymbolDetails,           *)
(*     loadSymbolDetail, loadFiles, loadSymbols, treeSitterExtractCode,    *)
(*     sanitizeRepoID, extractSymbolName, the entry of one symbol, the     *)
(*     RST file names).                                                    *)
(* The specifications SpecBuild, SpecWrite, SpecNav, SpecNavEmpty,         *)
(* SpecNavNoFail, SpecQuery, SpecLists, SpecExtract, SpecSanitize,         *)
(* SpecName, SpecEntry, SpecFileName and SpecListed share the module.      *)
(* Each one keeps the variables of the other components at their idle      *)
(* value.                                                                  *)
(***************************************************************************)
EXTENDS Integers, Sequences, FiniteSets, Bags, TLC

VARIABLES
    docs,       \* buildRST: the input documents of one language partition
    rst,        \* buildRST: the table built so far (entries + symbolIndex)
    bpc         \* buildRST: "input" | "pass1" | "done"

VARIABLES
    fs,         \* parseMain: path -> content of the output directory
    fs0,        \* parseMain: the directory as it was before the call
    todo,       \* parseMain: language partitions not yet processed
    cur,        \* parseMain: the partition being written
    wpc,        \* parseMain: "loop" | "create" | "write" | "sync" |
                \*            "rename" | "done" | "failed"
    failedAt,   \* parseMain: the step whose error was returned
    observed    \* what a reader last saw at a final path, and when

VARIABLES
    m,          \* browser: the model struct of the TUI
    inflight,   \* browser: the bag of load commands that are running
    status,     \* browser: "running" | "quit" | "panic"
    last,       \* browser: the last event handled (history)
    shadow,     \* browser: the full details pushed by the jumps (history)
    disk        \* browser: file name -> RST of the index directory

VARIABLES
    pin,        \* a single call: the arguments
    pout,       \* a single call: what has been returned so far
    ppc         \* a single call: "idle" | "call" | "done"

bvars == <<docs, rst, bpc>>
wvars == <<fs, fs0, todo, cur, wpc, failedAt, observed>>
pvars == <<pin, pout, ppc>>
nvars == <<m, inflight, status, last, shadow, disk>>
vars == <<bvars, wvars, nvars, pvars>>

\* a step of one component leaves the other components alone
BuildStep == UNCHANGED <<wvars, nvars, pvars>>
WriteStep == UNCHANGED <<bvars, nvars, pvars>>
NavStep == UNCHANGED <<bvars, wvars, pvars>>
CallStep == UNCHANGED <<bvars, wvars, nvars>>

\* the value of the variables of a component that is not running
BuildIdle == docs = <<>> /\ rst = <<>> /\ bpc = "idle"
WriteIdle ==
    /\ fs = <<>> /\ fs0 = <<>> /\ todo = {} /\ cur = "" /\ wpc = "idle"
    /\ failedAt = "" /\ observed = <<>>
CallIdle == pin = <<>> /\ pout = <<>> /\ ppc = "idle"
NavIdle ==
    /\ m = <<>> /\ inflight = <<>> /\ status = "idle" /\ last = <<>>
    /\ shadow = <<>> /\ disk = <<>>

(***************************************************************************)
(* Generic helpers                                                         *)
(***************************************************************************)
Contains(s, x) == \E i \in 1..Len(s) : s[i] = x

NoDuplicates(s) == \A i, j \in 1..Len(s) : i # j => s[i] # s[j]

(***************************************************************************)
(* buildRST: inputs                                                        *)
(***************************************************************************)
\* Bounds of the input documents: at most MaxDocs documents, and the size
\* of a partition (its occurrences, plus one for every document after the
\* first) is at most MaxInputSize; rows are 0..MaxRow.
MaxDocs == 2
MaxInputSize == 3
MaxRow == 3

\* Upstream symbol identifiers: two exported symbols and one local symbol.
SymIds == {"A", "B", "local 1"}

\* scip.IsLocalSymbol: the id starts with "local ".
IsLocalSymbol(id) == id \in {"local 1"}

\* An occurrence: Range is empty or starts with its row; EnclosingRange is
\* absent (empty) or <<start_row, start_col, end_row, end_col>>.
Ranges == {<<>>} \cup {<<r>> : r \in 0..MaxRow}
EnclosingRanges == {<<>>, <<1, 0, 2, 0>>}
Occurrences == [Symbol : SymIds, Range : Ranges, EnclosingRange : EnclosingRanges]

\* A document: the declared symbols and the occurrence list.  Its
\* RelativePath is its position in docs (relative paths are unique keys).
\* The documents of a partition are cut out of one flat occurrence list:
\* document i holds flat[cut[i-1]+1 .. cut[i]].
Cuts(n, total) ==
    {c \in [1..n -> 0..total] :
        c[n] = total /\ \A i \in 1..(n - 1) : c[i] <= c[i + 1]}

MakeDocs(n, cut, symsOf, flat) ==
    [i \in 1..n |->
        [Symbols |-> symsOf[i],
         Occurrences |-> SubSeq(flat, (IF i = 1 THEN 0 ELSE cut[i - 1]) + 1, cut[i])]]

(***************************************************************************)
(* buildRST: pass 1 (symbol pass)                                          *)
(***************************************************************************)
\* occIndex of one document: id -> 1-indexed line of the first occurrence
\* of that id that has a non-empty range (0 when there is none).
FirstOccLine(doc, id) ==
    LET hits == {i \in 1..Len(doc.Occurrences) :
                    /\ Len(doc.Occurrences[i].Range) > 0
                    /\ doc.Occurrences[i].Symbol # ""
                    /\ doc.Occurrences[i].Symbol = id}
    IN  IF hits = {} THEN 0
        ELSE LET first == CHOOSE i \in hits : \A k \in hits : i <= k
             IN  doc.Occurrences[first].Range[1] + 1

\* The filter of declared symbols that get an entry.
DeclaredFilterNoLocal(id) == TRUE
DeclaredFilter(id) == ~IsLocalSymbol(id)

NewSymbol(doc, id) ==
    [Symbol |-> id, Line |-> FirstOccLine(doc, id),
     DependenceOn |-> <<>>, ReferenceBy |-> <<>>]

\* The entries are the rst.Symbol objects, named by <<document, id>>; a
\* document's symbol map holds the entries of its own index.  symbolIndex
\* maps an id to the document whose entry was stored last.
EmptyRST == [entries |-> <<>>, symbolIndex |-> <<>>]

Pass1Doc(t, d, doc) ==
    LET ids == {id \in doc.Symbols : DeclaredFilter(id)}
    IN  [entries |->
            [k \in DOMAIN t.entries \cup {<<d, id>> : id \in ids} |->
                IF k[1] = d /\ k[2] \in ids THEN NewSymbol(doc, k[2])
                ELSE t.entries[k]],
         symbolIndex |->
            [id \in DOMAIN t.symbolIndex \cup ids |->
                IF id \in ids THEN d ELSE t.symbolIndex[id]]]

RECURSIVE Pass1(_, _, _)
Pass1(t, ds, d) ==
    IF d > Len(ds) THEN t ELSE Pass1(Pass1Doc(t, d, ds[d]), ds, d + 1)

(***************************************************************************)
(* buildRST: pass 2 (cross-reference pass)                                 *)
(***************************************************************************)
\* append x to s unless already there (the "found" scan before append)
AddUniqueNoScan(s, x) == Append(s, x)
AddUnique(s, x) == IF Contains(s, x) THEN s ELSE Append(s, x)

\* the row test of the inner occurrence against the enclosing rows
InRangeStrict(row, startLine, endLine) == row > startLine /\ row < endLine
InRange(row, startLine, endLine) == row >= startLine /\ row <= endLine

\* the self-reference skip of the inner loop
SameSymbol(occ, otherOcc) == otherOcc.Symbol = occ.Symbol

\* the entry the symbol index holds for id
IndexKey(t, id) == <<t.symbolIndex[id], id>>

AddDependence(t, occ, otherOcc) ==
    IF occ.Symbol \in DOMAIN t.symbolIndex /\ ~IsLocalSymbol(otherOcc.Symbol)
    THEN LET k == IndexKey(t, occ.Symbol)
         IN  [t EXCEPT !.entries[k].DependenceOn = AddUnique(@, otherOcc.Symbol)]
    ELSE t

\* the reference recorded only under an indexed scope symbol
AddReferenceIfScopeIndexed(t, occ, otherOcc) ==
    IF occ.Symbol \in DOMAIN t.symbolIndex /\ otherOcc.Symbol \in DOMAIN t.symbolIndex
    THEN LET k == IndexKey(t, otherOcc.Symbol)
         IN  [t EXCEPT !.entries[k].ReferenceBy = AddUnique(@, occ.Symbol)]
    ELSE t

AddReference(t, occ, otherOcc) ==
    IF otherOcc.Symbol \in DOMAIN t.symbolIndex
    THEN LET k == IndexKey(t, otherOcc.Symbol)
         IN  [t EXCEPT !.entries[k].ReferenceBy = AddUnique(@, occ.Symbol)]
    ELSE t

\* one iteration of the inner loop: scope occurrence occ, inner otherOcc
Pass2Pair(t, occ, otherOcc) ==
    IF SameSymbol(occ, otherOcc) THEN t
    ELSE IF Len(otherOcc.Range) = 0 THEN t
    ELSE IF InRange(otherOcc.Range[1], occ.EnclosingRange[1], occ.EnclosingRange[3])
         THEN AddReference(AddDependence(t, occ, otherOcc), occ, otherOcc)
         ELSE t

RECURSIVE Pass2Inner(_, _, _, _)
Pass2Inner(t, doc, occ, j) ==
    IF j > Len(doc.Occurrences) THEN t
    ELSE Pass2Inner(Pass2Pair(t, occ, doc.Occurrences[j]), doc, occ, j + 1)

\* the guards of the outer loop: local scope symbols and occurrences
\* without an enclosing range of at least three numbers are skipped
IsScope(occ) == ~IsLocalSymbol(occ.Symbol) /\ Len(occ.EnclosingRange) >= 3

RECURSIVE Pass2Doc(_, _, _)
Pass2Doc(t, doc, i) ==
    IF i > Len(doc.Occurrences) THEN t
    ELSE LET occ == doc.Occurrences[i]
         IN  Pass2Doc(IF IsScope(occ) THEN Pass2Inner(t, doc, occ, 1) ELSE t,
                      doc, i + 1)

RECURSIVE Pass2(_, _, _)
Pass2(t, ds, d) ==
    IF d > Len(ds) THEN t ELSE Pass2(Pass2Doc(t, ds[d], 1), ds, d + 1)

(***************************************************************************)
(* buildRST as a state machine                                             *)
(***************************************************************************)
InitBuild ==
    /\ \E n \in 1..MaxDocs :
       \E total \in 0..(MaxInputSize - (n - 1)) :
       \E cut \in Cuts(n, total) :
       \E symsOf \in [1..n -> SUBSET SymIds] :
       \E flat \in [1..total -> Occurrences] :
          docs = MakeDocs(n, cut, symsOf, flat)
    /\ rst = EmptyRST
    /\ bpc = "input"
    /\ WriteIdle
    /\ NavIdle
    /\ CallIdle

\* the first loop of buildRST over all documents
SymbolPass ==
    /\ bpc = "input"
    /\ rst' = Pass1(EmptyRST, docs, 1)
    /\ bpc' = "pass1"
    /\ UNCHANGED docs
    /\ BuildStep

\* the second loop of buildRST over all documents; buildRST returns
CrossReferencePass ==
    /\ bpc = "pass1"
    /\ rst' = Pass2(rst, docs, 1)
    /\ bpc' = "done"
    /\ UNCHANGED docs
    /\ BuildStep

NextBuild == SymbolPass \/ CrossReferencePass

SpecBuild == InitBuild /\ [][NextBuild]_vars

(***************************************************************************)
(* buildRST: properties                                                    *)
(***************************************************************************)
Built == bpc = "done"

Entries == rst.entries
EntryKeys == DOMAIN rst.entries
Indexed(id) == id \in DOMAIN rst.symbolIndex
IndexEntry(id) == rst.entries[IndexKey(rst, id)]

\* <<S, O>> is a scope pair of the input: some document holds an occurrence
\* of the non-local S with an enclosing range and an occurrence of another
\* symbol O whose first range row lies within the enclosing rows.
ScopePair(S, O) ==
    \E d \in 1..Len(docs) :
    \E i, j \in 1..Len(docs[d].Occurrences) :
        LET occ == docs[d].Occurrences[i]
            otherOcc == docs[d].Occurrences[j]
        IN  /\ occ.Symbol = S /\ otherOcc.Symbol = O /\ S # O
            /\ ~IsLocalSymbol(S)
            /\ Len(occ.EnclosingRange) >= 3
            /\ Len(otherOcc.Range) > 0
            /\ occ.EnclosingRange[1] <= otherOcc.Range[1]
            /\ otherOcc.Range[1] <= occ.EnclosingRange[3]

\* C1: after buildRST, for every two symbol entries A and B stored in any
\* document of the table, B.id is in A.dependence_on if and only if A.id is
\* in B.reference_by.
C1_Symmetry ==
    Built =>
        \A ka, kb \in EntryKeys :
            Contains(Entries[ka].DependenceOn, kb[2])
                <=> Contains(Entries[kb].ReferenceBy, ka[2])

\* C2: the cross-reference pass creates exactly the edges of the scope
\* pairs: for an indexed non-local S and a different non-local O with an
\* occurrence in the same document on a row within S's enclosing rows (both
\* bounds inclusive), O is in S.dependence_on and, when O is indexed, S is in
\* O.reference_by; no edge exists without such a pair (other documents and
\* rows outside the range never produce one).  The example: F on row 1 with
\* enclosing rows 1-2 and a reference to G on row 2 give
\* F.dependence_on = <<G>> and G.reference_by = <<F>>.
ExampleDocs ==
    <<[Symbols |-> {"A", "B"},
       Occurrences |->
            <<[Symbol |-> "A", Range |-> <<1>>, EnclosingRange |-> <<1, 0, 2, 0>>],
              [Symbol |-> "B", Range |-> <<2>>, EnclosingRange |-> <<>>]>>]>>

C2_ExactEdges ==
    Built =>
        /\ \A S, O \in SymIds :
              (Indexed(S) /\ ~IsLocalSymbol(O) /\ ScopePair(S, O)) =>
                  /\ Contains(IndexEntry(S).DependenceOn, O)
                  /\ Indexed(O) => Contains(IndexEntry(O).ReferenceBy, S)
        /\ \A k \in EntryKeys :
              /\ \A i \in 1..Len(Entries[k].DependenceOn) :
                    ScopePair(k[2], Entries[k].DependenceOn[i])
              /\ \A i \in 1..Len(Entries[k].ReferenceBy) :
                    ScopePair(Entries[k].ReferenceBy[i], k[2])
        /\ docs = ExampleDocs =>
              /\ Entries[<<1, "A">>].DependenceOn = <<"B">>
              /\ Entries[<<1, "B">>].ReferenceBy = <<"A">>

\* the example input has been built, and a second input with rows on both
\* sides of the range
C2_Witness ==
    /\ Built
    /\ docs = ExampleDocs
    /\ Entries[<<1, "A">>].DependenceOn = <<"B">>
    /\ Entries[<<1, "B">>].ReferenceBy = <<"A">>

\* C3: no local symbol id is a key of a document's symbol map, the id of a
\* symbol entry, or an element of a dependence_on or reference_by list.
C3_NoLocalIds ==
    /\ \A id \in DOMAIN rst.symbolIndex : ~IsLocalSymbol(id)
    /\ \A k \in EntryKeys :
          /\ ~IsLocalSymbol(k[2])
          /\ ~IsLocalSymbol(Entries[k].Symbol)
          /\ \A i \in 1..Len(Entries[k].DependenceOn) :
                ~IsLocalSymbol(Entries[k].DependenceOn[i])
          /\ \A i \in 1..Len(Entries[k].ReferenceBy) :
                ~IsLocalSymbol(Entries[k].ReferenceBy[i])

\* a built table whose input declares a local symbol, has a local occurrence
\* inside an indexed scope and a local scope around an indexed symbol
C3_Witness ==
    /\ Built
    /\ \E d \in 1..Len(docs) :
          /\ \E id \in docs[d].Symbols : IsLocalSymbol(id)
          /\ \E i, j \in 1..Len(docs[d].Occurrences) :
                /\ IsLocalSymbol(docs[d].Occurrences[j].Symbol)
                /\ Indexed(docs[d].Occurrences[i].Symbol)
                /\ Len(docs[d].Occurrences[i].EnclosingRange) >= 3
                /\ docs[d].Occurrences[j].Range = <<1>>
          /\ \E i, j \in 1..Len(docs[d].Occurrences) :
                /\ IsLocalSymbol(docs[d].Occurrences[i].Symbol)
                /\ Len(docs[d].Occurrences[i].EnclosingRange) >= 3
                /\ Indexed(docs[d].Occurrences[j].Symbol)
                /\ docs[d].Occurrences[j].Range = <<2>>

DeclaredIds == UNION {docs[d].Symbols : d \in 1..Len(docs)}

\* no entry of the table is stored under id
NothingRecordedFor(id) ==
    /\ ~Indexed(id)
    /\ \A k \in EntryKeys : k[2] # id /\ Entries[k].Symbol # id

\* C19: a dangling edge is dropped only on the side whose owner has no entry
\* in the symbol index.  For every scope pair <<S, O>> with O non-local: when
\* S is indexed, S.dependence_on holds O, also when O has no entry, and then
\* nothing is recorded for O; when O is indexed, O.reference_by holds S, also
\* when S has no entry, and then nothing is recorded for S.  No entry and no
\* index key exists for an id that no document declares.
C19_DanglingEdges ==
    /\ \A k \in EntryKeys :
          /\ k[1] \in 1..Len(docs)
          /\ k[2] \in docs[k[1]].Symbols
          /\ Entries[k].Symbol = k[2]
    /\ \A id \in DOMAIN rst.symbolIndex : id \in DeclaredIds
    /\ Built =>
          \A S, O \in SymIds :
              (ScopePair(S, O) /\ ~IsLocalSymbol(O)) =>
                  /\ Indexed(S) => Contains(IndexEntry(S).DependenceOn, O)
                  /\ Indexed(O) => Contains(IndexEntry(O).ReferenceBy, S)
                  /\ ~Indexed(O) => NothingRecordedFor(O)
                  /\ ~Indexed(S) => NothingRecordedFor(S)

\* a built table with both kinds of dangling edge: an indexed S around an O
\* that no document declares, and a scope S2 that no document declares around
\* an indexed O2
C19_Witness ==
    /\ Built
    /\ \E S, O \in SymIds :
          /\ ScopePair(S, O) /\ ~IsLocalSymbol(O)
          /\ Indexed(S) /\ O \notin DeclaredIds
          /\ Contains(IndexEntry(S).DependenceOn, O)
    /\ \E S2, O2 \in SymIds :
          /\ ScopePair(S2, O2)
          /\ Indexed(O2) /\ S2 \notin DeclaredIds
          /\ Contains(IndexEntry(O2).ReferenceBy, S2)

(***************************************************************************)
(* parseMain: writing the partitions (temp file, sync, rename)             *)
(***************************************************************************)
\* The language partitions an index can hold, and the length in bytes of a
\* marshalled table.
Langs == {"go", "python"}
DataLen == 2

\* filename = sanitizedRepoID.lang.rst, joined to the output directory
OutputPath(lang) == <<"outputDir", "repo", lang, "rst">>

\* tmpPath = outputPath + ".tmp"
TmpPathInPlace(outputPath) == outputPath
TmpPath(outputPath) == Append(outputPath, "tmp")

Paths == {OutputPath(l) : l \in Langs} \cup {TmpPath(OutputPath(l)) : l \in Langs}

NoFile == [exists |-> FALSE, bytes |-> <<>>]
File(bytes) == [exists |-> TRUE, bytes |-> bytes]

\* proto.Marshal(rstTable): the bytes of the new table; the bytes of the
\* table a previous run left at the final path
NewData == [i \in 1..DataLen |-> i]
OldData == [i \in 1..DataLen |-> 0 - i]

Prefix(bytes, k) == SubSeq(bytes, 1, k)

\* os.Rename(from, to) that succeeds / that fails
RenameFile(f, from, to) ==
    IF from = to THEN f ELSE [f EXCEPT ![to] = f[from], ![from] = NoFile]

\* where parseMain goes when writeRST returns an error
WriteErrorIgnoredPc == "rename"
WriteErrorPc == "failed"

InitWrite ==
    /\ BuildIdle
    /\ NavIdle
    /\ CallIdle
    /\ fs \in [Paths -> {NoFile, File(OldData), File(Prefix(OldData, 1))}]
    /\ \A l \in Langs : fs[OutputPath(l)] \in {NoFile, File(OldData)}
    /\ \A l \in Langs : fs[TmpPath(OutputPath(l))] \in {NoFile, File(Prefix(OldData, 1))}
    /\ fs0 = fs
    /\ todo \in SUBSET Langs
    /\ cur = ""
    /\ wpc = "loop"
    /\ failedAt = ""
    /\ observed = [path |-> <<>>, content |-> NoFile, at |-> "never"]

\* for lang, docs := range langDocs: the next partition, in map order
StartPartition ==
    /\ wpc = "loop" /\ todo # {}
    /\ \E l \in todo : cur' = l /\ todo' = todo \ {l}
    /\ wpc' = "create"
    /\ UNCHANGED <<fs, fs0, failedAt, observed>>
    /\ WriteStep

\* the loop is over: return nil
ReturnNil ==
    /\ wpc = "loop" /\ todo = {}
    /\ wpc' = "done"
    /\ UNCHANGED <<fs, fs0, todo, cur, failedAt, observed>>
    /\ WriteStep

\* writeRST: os.Create(tmpPath) creates or truncates the temporary file
CreateOk ==
    /\ wpc = "create"
    /\ fs' = [fs EXCEPT ![TmpPath(OutputPath(cur))] = File(<<>>)]
    /\ wpc' = "write"
    /\ UNCHANGED <<fs0, todo, cur, failedAt, observed>>
    /\ WriteStep

CreateFail ==
    /\ wpc = "create"
    /\ wpc' = WriteErrorPc
    /\ failedAt' = "create"
    /\ UNCHANGED <<fs, fs0, todo, cur, observed>>
    /\ WriteStep

\* writeRST: proto.Marshal and f.Write(data)
WriteOk ==
    /\ wpc = "write"
    /\ fs' = [fs EXCEPT ![TmpPath(OutputPath(cur))] = File(NewData)]
    /\ wpc' = "sync"
    /\ UNCHANGED <<fs0, todo, cur, failedAt, observed>>
    /\ WriteStep

\* Marshal fails (nothing written) or Write stops after k < len(data) bytes
WriteFail ==
    /\ wpc = "write"
    /\ \E k \in 0..(DataLen - 1) :
          fs' = [fs EXCEPT ![TmpPath(OutputPath(cur))] = File(Prefix(NewData, k))]
    /\ wpc' = WriteErrorPc
    /\ failedAt' = "write"
    /\ UNCHANGED <<fs0, todo, cur, observed>>
    /\ WriteStep

\* writeRST: f.Sync()
SyncOk ==
    /\ wpc = "sync"
    /\ wpc' = "rename"
    /\ UNCHANGED <<fs, fs0, todo, cur, failedAt, observed>>
    /\ WriteStep

SyncFail ==
    /\ wpc = "sync"
    /\ wpc' = WriteErrorPc
    /\ failedAt' = "sync"
    /\ UNCHANGED <<fs, fs0, todo, cur, observed>>
    /\ WriteStep

\* os.Rename(tmpPath, outputPath)
RenameOk ==
    /\ wpc = "rename"
    /\ fs' = RenameFile(fs, TmpPath(OutputPath(cur)), OutputPath(cur))
    /\ wpc' = "loop"
    /\ UNCHANGED <<fs0, todo, cur, failedAt, observed>>
    /\ WriteStep

RenameFail ==
    /\ wpc = "rename"
    /\ wpc' = "failed"
    /\ failedAt' = "rename"
    /\ UNCHANGED <<fs, fs0, todo, cur, observed>>
    /\ WriteStep

\* another process opens a final path and reads it
ReaderOpens ==
    /\ wpc \notin {"done", "failed"}
    /\ \E l \in Langs :
          observed' = [path |-> OutputPath(l), content |-> fs[OutputPath(l)], at |-> wpc]
    /\ UNCHANGED <<fs, fs0, todo, cur, wpc, failedAt>>
    /\ WriteStep

NextWrite ==
    \/ StartPartition \/ ReturnNil
    \/ CreateOk \/ CreateFail
    \/ WriteOk \/ WriteFail
    \/ SyncOk \/ SyncFail
    \/ RenameOk \/ RenameFail
    \/ ReaderOpens

SpecWrite == InitWrite /\ [][NextWrite]_vars

(***************************************************************************)
(* parseMain: properties                                                   *)
(***************************************************************************)
\* what a reader may see at the final path of lang: nothing or the previous
\* complete file as before the call, or the new complete file
WholeFiles(lang) == {fs0[OutputPath(lang)], File(NewData)}

\* C5: a reader that opens the final path at any step of the write sees no
\* file, the previous complete file or the new complete file, and the
\* content of a final path changes only by the rename that follows the
\* complete write and the sync of the temporary file.
C5_AtomicReplace ==
    /\ [](/\ \A l \in Langs : fs[OutputPath(l)] \in WholeFiles(l)
          /\ observed.at # "never" =>
                \E l \in Langs : /\ observed.path = OutputPath(l)
                                  /\ observed.content \in WholeFiles(l))
    /\ [][\A l \in Langs :
            fs'[OutputPath(l)] # fs[OutputPath(l)] =>
                /\ wpc = "rename" /\ cur = l
                /\ fs[TmpPath(OutputPath(l))] = File(NewData)
                /\ fs'[OutputPath(l)] = File(NewData)]_vars

\* a reader opened the final path while the temporary file was created but
\* not yet written, and saw the previous complete file
C5_Witness ==
    /\ wpc = "write"
    /\ fs[TmpPath(OutputPath(cur))] = File(<<>>)
    /\ observed.at = "write"
    /\ observed.path = OutputPath(cur)
    /\ observed.content = File(OldData)

\* C6: when creating, writing or syncing the temporary file, or the rename,
\* fails, parseMain returns an error and the final path of the partition
\* holds what it held before the call; no final path holds a partial file.
C6_FailureLeavesFinal ==
    /\ failedAt # "" => wpc = "failed"
    /\ wpc = "failed" =>
          /\ failedAt \in {"create", "write", "sync", "rename"}
          /\ fs[OutputPath(cur)] = fs0[OutputPath(cur)]
          /\ \A l \in Langs : fs[OutputPath(l)] \in WholeFiles(l)

\* the write stopped after a part of the bytes; the final path still holds
\* the previous complete file
C6_Witness ==
    /\ wpc = "failed" /\ failedAt = "write"
    /\ fs[TmpPath(OutputPath(cur))] = File(Prefix(NewData, 1))
    /\ fs[OutputPath(cur)] = File(OldData)

\* C25: when writing one partition fails, the failure does not abort the
\* sibling partitions: once parseMain has returned the error, the final path
\* of every other partition of the index holds the new table (none of them is
\* left waiting).
C25_SiblingsStillWritten ==
    wpc = "failed" =>
        /\ todo = {}
        /\ \A l \in Langs \ {cur} :
              fs[OutputPath(l)] # fs0[OutputPath(l)] => fs[OutputPath(l)] = File(NewData)

(***************************************************************************)
(* Browser: strings (sequences of characters) and the symbol key codec     *)
(***************************************************************************)
HasPrefix(s, p) == Len(s) >= Len(p) /\ SubSeq(s, 1, Len(p)) = p
HasSuffix(s, x) == Len(s) >= Len(x) /\ SubSeq(s, Len(s) - Len(x) + 1, Len(s)) = x
TrimPrefix(s, p) == IF HasPrefix(s, p) THEN SubSeq(s, Len(p) + 1, Len(s)) ELSE s
TrimSuffix(s, x) == IF HasSuffix(s, x) THEN SubSeq(s, 1, Len(s) - Len(x)) ELSE s

\* strings.ReplaceAll for a single character
ReplaceAll(s, old, new) == [i \in 1..Len(s) |-> IF s[i] = old THEN new ELSE s[i]]

\* strings.LastIndex for a single character, 1-based; 0 when absent (Go: -1)
LastIndex(s, c) ==
    LET hits == {i \in 1..Len(s) : s[i] = c}
    IN  IF hits = {} THEN 0 ELSE CHOOSE i \in hits : \A k \in hits : k <= i

\* the backtick character
Backtick == "BACKTICK"

\* the trims of "#" and "." in the other order
extractSymbolNameDotFirst(scipSymbol) ==
    LET lastTick == LastIndex(scipSymbol, Backtick)
    IN  IF lastTick = 0 THEN scipSymbol
        ELSE LET afterTick == SubSeq(scipSymbol, lastTick + 1, Len(scipSymbol))
                 a1 == TrimPrefix(afterTick, <<"/">>)
                 a2 == TrimSuffix(a1, <<".">>)
                 a3 == TrimSuffix(a2, <<"#">>)
             IN  TrimSuffix(a3, <<"(", ")">>)

extractSymbolName(scipSymbol) ==
    LET lastTick == LastIndex(scipSymbol, Backtick)
    IN  IF lastTick = 0 THEN scipSymbol
        ELSE LET afterTick == SubSeq(scipSymbol, lastTick + 1, Len(scipSymbol))
                 a1 == TrimPrefix(afterTick, <<"/">>)
                 a2 == TrimSuffix(a1, <<"#">>)
                 a3 == TrimSuffix(a2, <<".">>)
             IN  TrimSuffix(a3, <<"(", ")">>)

extractSymbolKey(scipSymbol) ==
    LET lastTick == LastIndex(scipSymbol, Backtick)
    IN  IF lastTick = 0 THEN scipSymbol ELSE SubSeq(scipSymbol, 1, lastTick)

GoRstSuffix == <<".", "g", "o", ".", "r", "s", "t">>

repoToRSTFile(repo) ==
    ReplaceAll(ReplaceAll(repo, ".", "_"), "/", "_") \o GoRstSuffix

rstFileToRepoName(fileName) ==
    ReplaceAll(TrimSuffix(fileName, GoRstSuffix), "_", ".")

(***************************************************************************)
(* Browser: the index directory (read only while the browser runs)         *)
(***************************************************************************)
\* symbol ids: p'/F().  p'/G().  p'/H#  and p'/Z(). (not indexed),
\* where ' stands for the backtick that closes the package name
IdF == <<"p", Backtick, "/", "F", "(", ")", ".">>
IdG == <<"p", Backtick, "/", "G", "(", ")", ".">>
IdH == <<"p", Backtick, "/", "H", "#">>
IdZ == <<"p", Backtick, "/", "Z", "(", ")", ".">>

Sym(id, sig, line, code, deps, refs) ==
    [Symbol |-> id, Signature |-> sig, Line |-> line, Code |-> code,
     DependenceOn |-> deps, ReferenceBy |-> refs]

\* a_b.go.rst: x.go holds F (uses G and H) and G; y.go holds H (uses Z)
RstAB ==
    [Documents |->
        [p \in {"x.go", "y.go"} |->
            IF p = "x.go"
            THEN [id \in {IdF, IdG} |->
                    IF id = IdF
                    THEN Sym(IdF, "func F()", 1, "body F", <<IdG, IdH>>, <<>>)
                    ELSE Sym(IdG, "func G()", 2, "body G", <<>>, <<IdF>>)]
            ELSE [id \in {IdH} |->
                    Sym(IdH, "type H", 1, "", <<IdZ>>, <<IdF>>)]]]

\* c.go.rst: z.go declares no symbol
RstC == [Documents |-> [p \in {"z.go"} |-> <<>>]]

FileAB == <<"a", "_", "b">> \o GoRstSuffix
FileC == <<"c">> \o GoRstSuffix

\* os.ReadDir(rstPath): the entries, sorted by file name
DirEntries == <<FileAB, FileC>>

\* the directory the browser usually runs on, and one whose second file is
\* an RST without documents
DiskABC == [f \in {FileAB, FileC} |-> IF f = FileAB THEN RstAB ELSE RstC]
RstNone == [Documents |-> <<>>]
DiskABNone == [f \in {FileAB, FileC} |-> IF f = FileAB THEN RstAB ELSE RstNone]

ReadRST(fileName) == disk[fileName]

\* byte order of the document paths
PathOrder == <<"x.go", "y.go", "z.go">>
PathRank(p) == CHOOSE i \in 1..Len(PathOrder) : PathOrder[i] = p

(***************************************************************************)
(* Browser: list.Model, items, commands and messages                       *)
(***************************************************************************)
\* list.Model with every item on one page: the items and the 0-based cursor
NewList == [items |-> <<>>, cursor |-> 0]
SetItems(l, items) == [l EXCEPT !.items = items]
HasSelected(l) == l.cursor < Len(l.items)
SelectedItem(l) == l.items[l.cursor + 1]
CursorDown(l) ==
    LET c == l.cursor + 1
        n == Len(l.items)
    IN  [l EXCEPT !.cursor = IF c < n THEN c ELSE IF c > n THEN 0 ELSE n - 1]
CursorUp(l) == [l EXCEPT !.cursor = IF l.cursor > 0 THEN l.cursor - 1 ELSE 0]
Select(l, i) == [l EXCEPT !.cursor = i]

repoItem(name) == [name |-> name]
fileItem(name) == [name |-> name]
symbolItem(name, signature, line) == [name |-> name, signature |-> signature, line |-> line]
refItem(name, kind) == [name |-> name, kind |-> kind]

Nil == [nil |-> TRUE]

\* the load commands (tea.Cmd)
NoCmd == [op |-> "none", repo |-> <<>>, filePath |-> "", symbolName |-> <<>>, line |-> 0]
LoadReposCmd == [NoCmd EXCEPT !.op = "loadRepos"]
LoadFilesCmd(repo) == [NoCmd EXCEPT !.op = "loadFiles", !.repo = repo]
LoadSymbolsCmd(repo, filePath) ==
    [NoCmd EXCEPT !.op = "loadSymbols", !.repo = repo, !.filePath = filePath]
LoadSymbolDetailCmd(repo, filePath, symbolName, line) ==
    [op |-> "loadSymbolDetail", repo |-> repo, filePath |-> filePath,
     symbolName |-> symbolName, line |-> line]
QuitCmd == [NoCmd EXCEPT !.op = "quit"]

\* the messages
NoMsg == [type |-> "none"]
errMsg == [type |-> "errMsg"]
reposLoadedMsg(items) == [type |-> "reposLoadedMsg", items |-> items]
filesLoadedMsg(items) == [type |-> "filesLoadedMsg", items |-> items]
symbolsLoadedMsg(items) == [type |-> "symbolsLoadedMsg", items |-> items]
symbolDetailMsg(detail) == [type |-> "symbolDetailMsg", detail |-> detail]

\* the orders a sort by key can leave the elements of S in
SortedBy(S, key) ==
    {s \in [1..Cardinality(S) -> S] :
        /\ \A e \in S : \E i \in 1..Cardinality(S) : s[i] = e
        /\ \A i \in 1..(Cardinality(S) - 1) : key[s[i]] <= key[s[i + 1]]}

makeDepsItems(deps) == [i \in 1..Len(deps) |-> refItem(extractSymbolName(deps[i]), "dep")]
makeRefsItems(refs) == [i \in 1..Len(refs) |-> refItem(extractSymbolName(refs[i]), "ref")]

(***************************************************************************)
(* Browser: the load commands, run against the index directory             *)
(***************************************************************************)
FileExists(fileName) == \E i \in 1..Len(DirEntries) : DirEntries[i] = fileName

RECURSIVE RepoItemsFrom(_)
RepoItemsFrom(i) ==
    IF i > Len(DirEntries) THEN <<>>
    ELSE IF HasSuffix(DirEntries[i], <<".", "r", "s", "t">>)
         THEN <<repoItem(rstFileToRepoName(DirEntries[i]))>> \o RepoItemsFrom(i + 1)
         ELSE RepoItemsFrom(i + 1)

loadRepos == {reposLoadedMsg(RepoItemsFrom(1))}

\* loadFiles once the RST is read
FilesOf(r) ==
    {filesLoadedMsg([i \in 1..Len(order) |-> fileItem(order[i])]) :
        order \in SortedBy(DOMAIN r.Documents,
                           [p \in DOMAIN r.Documents |-> PathRank(p)])}

loadFiles(repo) ==
    IF ~FileExists(repoToRSTFile(repo)) THEN {errMsg}
    ELSE FilesOf(ReadRST(repoToRSTFile(repo)))

\* loadSymbols once the RST is read
SymbolsOf(r, filePath) ==
    IF filePath \notin DOMAIN r.Documents THEN {errMsg}
    ELSE LET doc == r.Documents[filePath]
             LineOf == [symKey \in DOMAIN doc |-> doc[symKey].Line]
         IN  {symbolsLoadedMsg(
                 [i \in 1..Len(order) |->
                     symbolItem(extractSymbolName(order[i]),
                                doc[order[i]].Signature,
                                doc[order[i]].Line)]) :
               order \in SortedBy(DOMAIN doc, LineOf)}

loadSymbols(repo, filePath) ==
    IF ~FileExists(repoToRSTFile(repo)) THEN {errMsg}
    ELSE SymbolsOf(ReadRST(repoToRSTFile(repo)), filePath)

\* the test of loadSymbolDetail on a candidate's name
DetailNameMatches(baseName, symbolName) ==
    \/ baseName = symbolName
    \/ baseName = symbolName \o <<"(", ")">>

\* loadSymbolDetail once the RST is read; the map iterations may meet any
\* matching symbol first
SymbolDetailOf(r, filePath, symbolName, line) ==
    LET Matches(path, symKey) ==
            /\ filePath = "" \/ path = filePath
            /\ DetailNameMatches(extractSymbolName(symKey), symbolName)
            /\ line = 0 \/ r.Documents[path][symKey].Line = line
        found == {ps \in UNION {{<<path, symKey>> : symKey \in DOMAIN r.Documents[path]} :
                                   path \in DOMAIN r.Documents} :
                     Matches(ps[1], ps[2])}
    IN  IF found = {} THEN {errMsg}
        ELSE {LET foundSym == r.Documents[ps[1]][ps[2]]
              IN  symbolDetailMsg(
                     [name |-> symbolName,
                      signature |-> foundSym.Signature,
                      filePath |-> ps[1],
                      line |-> foundSym.Line,
                      deps |-> foundSym.DependenceOn,
                      refs |-> foundSym.ReferenceBy,
                      code |-> foundSym.Code,
                      symbolKey |-> extractSymbolKey(foundSym.Symbol)]) :
              ps \in found}

loadSymbolDetail(repo, filePath, symbolName, line) ==
    IF ~FileExists(repoToRSTFile(repo)) THEN {errMsg}
    ELSE SymbolDetailOf(ReadRST(repoToRSTFile(repo)), filePath, symbolName, line)

\* the messages a command can produce
Run(cmd) ==
    CASE cmd.op = "loadRepos" -> loadRepos
      [] cmd.op = "loadFiles" -> loadFiles(cmd.repo)
      [] cmd.op = "loadSymbols" -> loadSymbols(cmd.repo, cmd.filePath)
      [] cmd.op = "loadSymbolDetail" ->
            loadSymbolDetail(cmd.repo, cmd.filePath, cmd.symbolName, cmd.line)

(***************************************************************************)
(* Browser: the model and its Update                                       *)
(***************************************************************************)
modeThreePane == 0
modeSymbol == 1

newModel ==
    [repos |-> NewList, files |-> NewList, symbols |-> NewList,
     deps |-> NewList, refs |-> NewList, viewport |-> "",
     mode |-> modeThreePane, active |-> 0, symbol |-> Nil, symbolStack |-> <<>>]

KeyMsg(key) == [type |-> "KeyMsg", key |-> key]

\* what a handler returns; a failed type assertion on a nil SelectedItem panics
Result(mm, cmd) == [m |-> mm, cmd |-> cmd, panic |-> FALSE]
Panic(mm) == [m |-> mm, cmd |-> NoCmd, panic |-> TRUE]

\* "Sync selection and load data": reload the column right of the focus
SyncSelection(mm, cmd) ==
    LET onRepos == Len(mm.repos.items) > 0 /\ mm.active = 0
        onFiles == Len(mm.files.items) > 0 /\ mm.active = 1
    IN  IF onRepos /\ ~HasSelected(mm.repos) THEN Panic(mm)
        ELSE IF onFiles /\ (~HasSelected(mm.repos) \/ ~HasSelected(mm.files)) THEN Panic(mm)
        ELSE IF onFiles
             THEN Result(mm, LoadSymbolsCmd(SelectedItem(mm.repos).name,
                                            SelectedItem(mm.files).name))
        ELSE IF onRepos
             THEN Result(mm, LoadFilesCmd(SelectedItem(mm.repos).name))
        ELSE Result(mm, cmd)

MoveCursor(mm, key) ==
    LET Move(l) == IF key = "j" THEN CursorDown(l) ELSE CursorUp(l)
    IN  CASE mm.active = 0 -> [mm EXCEPT !.repos = Move(mm.repos)]
          [] mm.active = 1 -> [mm EXCEPT !.files = Move(mm.files)]
          [] mm.active = 2 -> [mm EXCEPT !.symbols = Move(mm.symbols)]
          [] OTHER -> mm

\* "Enter symbol detail"
EnterSymbolDetail(mm) ==
    IF ~HasSelected(mm.symbols) \/ ~HasSelected(mm.files) \/ ~HasSelected(mm.repos)
    THEN Panic(mm)
    ELSE SyncSelection(mm,
            LoadSymbolDetailCmd(SelectedItem(mm.repos).name,
                                SelectedItem(mm.files).name,
                                SelectedItem(mm.symbols).name,
                                SelectedItem(mm.symbols).line))

ShowDetail(mm, detail) ==
    [mm EXCEPT !.symbol = detail,
               !.mode = modeSymbol,
               !.viewport = detail.code,
               !.deps = SetItems(mm.deps, makeDepsItems(detail.deps)),
               !.refs = SetItems(mm.refs, makeRefsItems(detail.refs)),
               !.active = 0]

\* an error handler that empties the symbols list
OnErrorClearsSymbols(mm) == [mm EXCEPT !.symbols = NewList]

\* case errMsg: the error is printed, the model is returned as it is
OnError(mm) == mm

\* a focus move to the left that wraps from the first column to the last
FocusLeftWrap(active) == (active + 2) % 3

\* "Move focus left (no wrap)"
FocusLeft(active) == IF active > 0 THEN active - 1 ELSE active

updateThreePaneMode(mm, msg) ==
    CASE msg.type = "reposLoadedMsg" ->
            LET m1 == [mm EXCEPT !.repos = SetItems(mm.repos, msg.items)]
            IN  IF Len(msg.items) > 0
                THEN Result(m1, LoadFilesCmd(msg.items[1].name))
                ELSE Result(m1, NoCmd)
      [] msg.type = "filesLoadedMsg" ->
            LET m1 == [mm EXCEPT !.files = SetItems(mm.files, msg.items)]
            IN  IF Len(msg.items) > 0
                THEN IF ~HasSelected(m1.repos) THEN Panic(m1)
                     ELSE Result(m1, LoadSymbolsCmd(SelectedItem(m1.repos).name,
                                                    msg.items[1].name))
                ELSE Result(m1, NoCmd)
      [] msg.type = "symbolsLoadedMsg" ->
            Result([mm EXCEPT !.symbols = SetItems(mm.symbols, msg.items)], NoCmd)
      [] msg.type = "symbolDetailMsg" ->
            Result(ShowDetail(mm, msg.detail), NoCmd)
      [] msg.type = "errMsg" ->
            Result(OnError(mm), NoCmd)
      [] msg.type = "KeyMsg" ->
            CASE msg.key = "q" -> Result(mm, QuitCmd)
              [] msg.key = "j" -> SyncSelection(MoveCursor(mm, "j"), NoCmd)
              [] msg.key = "k" -> SyncSelection(MoveCursor(mm, "k"), NoCmd)
              [] msg.key = "h" ->
                    SyncSelection([mm EXCEPT !.active = FocusLeft(mm.active)], NoCmd)
              [] msg.key = "l" ->
                    IF mm.active < 2
                    THEN SyncSelection([mm EXCEPT !.active = mm.active + 1], NoCmd)
                    ELSE IF Len(mm.symbols.items) > 0
                         THEN EnterSymbolDetail(mm)
                         ELSE SyncSelection(mm, NoCmd)
              [] msg.key = "enter" ->
                    IF mm.active = 2 /\ Len(mm.symbols.items) > 0
                    THEN EnterSymbolDetail(mm)
                    ELSE SyncSelection(mm, NoCmd)
              [] OTHER -> SyncSelection(mm, NoCmd)

scrollList(mm, delta) ==
    LET Scroll(l) ==
            IF Len(l.items) = 0 THEN l
            ELSE LET newIdx == l.cursor + delta
                 IN  Select(l, IF newIdx < 0 THEN 0
                               ELSE IF newIdx >= Len(l.items) THEN Len(l.items) - 1
                               ELSE newIdx)
    IN  IF mm.active = 1 THEN [mm EXCEPT !.deps = Scroll(mm.deps)]
        ELSE IF mm.active = 2 THEN [mm EXCEPT !.refs = Scroll(mm.refs)]
        ELSE mm

symbolJump(d) ==
    [name |-> d.name, signature |-> d.signature, line |-> d.line,
     filePath |-> d.filePath, deps |-> d.deps, refs |-> d.refs, code |-> d.code]

jumpToSymbol(mm, name) ==
    LET m1 == IF mm.symbol # Nil
              THEN [mm EXCEPT !.symbolStack = Append(mm.symbolStack, symbolJump(mm.symbol))]
              ELSE mm
    IN  IF ~HasSelected(m1.repos) THEN Panic(m1)
        ELSE Result(m1, LoadSymbolDetailCmd(SelectedItem(m1.repos).name, "", name, 0))

\* the detail rebuilt from a popped jump; symbolJump has no symbolKey, so the
\* field keeps Go's zero value
RestoredDetail(prev) ==
    [name |-> prev.name, signature |-> prev.signature, filePath |-> prev.filePath,
     line |-> prev.line, deps |-> prev.deps, refs |-> prev.refs, code |-> prev.code,
     symbolKey |-> <<>>]

\* the exit branch without the line that returns the focus to the symbols column
BackKeepsFocus(mm) ==
    IF Len(mm.symbolStack) > 0
    THEN LET prev == mm.symbolStack[Len(mm.symbolStack)]
         IN  [mm EXCEPT !.symbolStack = SubSeq(mm.symbolStack, 1, Len(mm.symbolStack) - 1),
                        !.symbol = RestoredDetail(prev),
                        !.viewport = prev.code,
                        !.deps = SetItems(mm.deps, makeDepsItems(prev.deps)),
                        !.refs = SetItems(mm.refs, makeRefsItems(prev.refs))]
    ELSE [mm EXCEPT !.mode = modeThreePane, !.symbol = Nil]

\* "h": pop from the stack if available, else return to three-pane
Back(mm) ==
    IF Len(mm.symbolStack) > 0
    THEN LET prev == mm.symbolStack[Len(mm.symbolStack)]
         IN  [mm EXCEPT !.symbolStack = SubSeq(mm.symbolStack, 1, Len(mm.symbolStack) - 1),
                        !.symbol = RestoredDetail(prev),
                        !.viewport = prev.code,
                        !.deps = SetItems(mm.deps, makeDepsItems(prev.deps)),
                        !.refs = SetItems(mm.refs, makeRefsItems(prev.refs))]
    ELSE [mm EXCEPT !.mode = modeThreePane, !.symbol = Nil, !.active = 2]

\* messages other than keys (and window sizes) fall through the type switch
updateSymbolMode(mm, msg) ==
    IF msg.type # "KeyMsg" THEN Result(mm, NoCmd)
    ELSE CASE msg.key \in {"q", "esc"} ->
                Result([mm EXCEPT !.mode = modeThreePane, !.symbol = Nil,
                                  !.symbolStack = <<>>, !.active = 2], NoCmd)
           [] msg.key = "h" -> Result(Back(mm), NoCmd)
           [] msg.key = "r" -> Result([mm EXCEPT !.active = 1], NoCmd)
           [] msg.key = "R" -> Result([mm EXCEPT !.active = 2], NoCmd)
           [] msg.key = "j" -> Result(scrollList(mm, 1), NoCmd)
           [] msg.key = "k" -> Result(scrollList(mm, 0 - 1), NoCmd)
           [] msg.key \in {"l", "enter"} ->
                IF mm.active = 1 /\ Len(mm.deps.items) > 0
                THEN IF ~HasSelected(mm.deps) THEN Panic(mm)
                     ELSE jumpToSymbol(mm, SelectedItem(mm.deps).name)
                ELSE IF mm.active = 2 /\ Len(mm.refs.items) > 0
                THEN IF ~HasSelected(mm.refs) THEN Panic(mm)
                     ELSE jumpToSymbol(mm, SelectedItem(mm.refs).name)
                ELSE Result(mm, NoCmd)
           [] OTHER -> Result(mm, NoCmd)

Update(mm, msg) ==
    IF mm.mode = modeSymbol THEN updateSymbolMode(mm, msg)
    ELSE updateThreePaneMode(mm, msg)

(***************************************************************************)
(* Browser: the event loop                                                 *)
(***************************************************************************)
MaxInflight == 2
MaxStack == 1

IsLoad(cmd) == cmd.op \in {"loadRepos", "loadFiles", "loadSymbols", "loadSymbolDetail"}
One(cmd) == IF IsLoad(cmd) THEN SetToBag({cmd}) ELSE EmptyBag

\* what the history keeps of the state a message was handled in
Pre(mm, pushed) ==
    [mode |-> mm.mode, active |-> mm.active, depth |-> Len(mm.symbolStack),
     top |-> IF pushed = <<>> THEN Nil ELSE pushed[Len(pushed)]]

InitNav ==
    /\ BuildIdle
    /\ WriteIdle
    /\ CallIdle
    /\ m = newModel
    /\ inflight = SetToBag({LoadReposCmd})
    /\ status = "running"
    /\ last = [msg |-> NoMsg, cmd |-> NoCmd, pre |-> Pre(newModel, <<>>),
               issued |-> LoadReposCmd, panic |-> FALSE, whole |-> <<>>]
    /\ shadow = <<>>
    /\ disk = DiskABC

\* the program handles one message: a key, or the result of the command done
Handle(msg, done) ==
    \E r \in {Update(m, msg)} : \E rest \in {inflight (-) One(done)} :
        /\ status = "running"
        /\ Len(r.m.symbolStack) <= MaxStack
        /\ BagCardinality(rest (+) One(r.cmd)) <= MaxInflight
        /\ m' = IF r.panic THEN m ELSE r.m
        /\ inflight' = rest (+) One(r.cmd)
        /\ status' = IF r.panic THEN "panic"
                     ELSE IF r.cmd = QuitCmd THEN "quit" ELSE "running"
        /\ last' = [msg |-> msg, cmd |-> done, pre |-> Pre(m, shadow),
                    issued |-> r.cmd, panic |-> r.panic,
                    whole |-> IF msg.type = "errMsg" THEN m ELSE <<>>]
        /\ shadow' = IF r.panic THEN shadow
                     ELSE IF Len(r.m.symbolStack) > Len(m.symbolStack)
                          THEN Append(shadow, m.symbol)
                          ELSE SubSeq(shadow, 1, Len(r.m.symbolStack))
        /\ UNCHANGED disk

Deliver(op) ==
    \E done \in BagToSet(inflight) :
        /\ done.op = op
        /\ \E msg \in Run(done) : Handle(msg, done)

KeyQ == Handle(KeyMsg("q"), NoCmd) /\ NavStep
KeyJ == Handle(KeyMsg("j"), NoCmd) /\ NavStep
KeyK == Handle(KeyMsg("k"), NoCmd) /\ NavStep
KeyH == Handle(KeyMsg("h"), NoCmd) /\ NavStep
KeyL == Handle(KeyMsg("l"), NoCmd) /\ NavStep
KeyEnter == Handle(KeyMsg("enter"), NoCmd) /\ NavStep
KeyR == Handle(KeyMsg("r"), NoCmd) /\ NavStep
KeyShiftR == Handle(KeyMsg("R"), NoCmd) /\ NavStep
ReposLoaded == Deliver("loadRepos") /\ NavStep
FilesLoaded == Deliver("loadFiles") /\ NavStep
SymbolsLoaded == Deliver("loadSymbols") /\ NavStep
SymbolDetailLoaded == Deliver("loadSymbolDetail") /\ NavStep

NextNav ==
    \/ KeyQ
    \/ KeyJ
    \/ KeyK
    \/ KeyH
    \/ KeyL
    \/ KeyEnter
    \/ KeyR
    \/ KeyShiftR
    \/ ReposLoaded
    \/ FilesLoaded
    \/ SymbolsLoaded
    \/ SymbolDetailLoaded

SpecNav == InitNav /\ [][NextNav]_vars

\* the browser on a directory whose second file is an RST without documents
InitNavEmpty ==
    /\ BuildIdle
    /\ WriteIdle
    /\ CallIdle
    /\ m = newModel
    /\ inflight = SetToBag({LoadReposCmd})
    /\ status = "running"
    /\ last = [msg |-> NoMsg, cmd |-> NoCmd, pre |-> Pre(newModel, <<>>),
               issued |-> LoadReposCmd, panic |-> FALSE, whole |-> <<>>]
    /\ shadow = <<>>
    /\ disk = DiskABNone

SpecNavEmpty == InitNavEmpty /\ [][NextNav]_vars

\* the runs of the browser in which no load fails: a command completes only
\* with a message that carries what it loaded
DeliverLoaded(op) ==
    \E done \in BagToSet(inflight) :
        /\ done.op = op
        /\ \E msg \in Run(done) \ {errMsg} : Handle(msg, done)

ReposLoadedOk == DeliverLoaded("loadRepos") /\ NavStep
FilesLoadedOk == DeliverLoaded("loadFiles") /\ NavStep
SymbolsLoadedOk == DeliverLoaded("loadSymbols") /\ NavStep
SymbolDetailLoadedOk == DeliverLoaded("loadSymbolDetail") /\ NavStep

NextNavNoFail ==
    \/ KeyQ
    \/ KeyJ
    \/ KeyK
    \/ KeyH
    \/ KeyL
    \/ KeyEnter
    \/ KeyR
    \/ KeyShiftR
    \/ ReposLoadedOk
    \/ FilesLoadedOk
    \/ SymbolsLoadedOk
    \/ SymbolDetailLoadedOk

SpecNavNoFail == InitNav /\ [][NextNavNoFail]_vars

(***************************************************************************)
(* Browser: the claims                                                     *)
(***************************************************************************)
\* the last message was this key, pressed in this mode
Pressed(keys, mode) ==
    /\ last.msg.type = "KeyMsg"
    /\ last.msg.key \in keys
    /\ last.pre.mode = mode

\* the last message was the result of a detail load; jumps load with no file
DetailDelivered(fromJump) ==
    /\ last.cmd.op = "loadSymbolDetail"
    /\ (last.cmd.filePath = "") = fromJump

Displays(detail) ==
    /\ m.mode = modeSymbol
    /\ m.symbol = detail
    /\ m.viewport = detail.code
    /\ m.deps.items = makeDepsItems(detail.deps)
    /\ m.refs.items = makeRefsItems(detail.refs)

\* l or enter confirmed a selected entry of the dependencies or references
Jumped ==
    /\ Pressed({"l", "enter"}, modeSymbol)
    /\ last.pre.active \in {1, 2}
    /\ last.issued.op = "loadSymbolDetail"

\* C7: in Detail mode showing X, confirming a selected entry Y of the
\* Dependencies or References list pushes X's detail on the jump stack (depth
\* grows by exactly one) and, once the issued load completes successfully, the
\* browser displays Y's detail (body, dependencies, references) in place of X's.
C7_JumpDisplaysTarget ==
    /\ Jumped =>
            /\ Len(m.symbolStack) = last.pre.depth + 1
            /\ m.symbolStack[Len(m.symbolStack)] = symbolJump(shadow[Len(shadow)])
            /\ last.issued.symbolName \in
                    {m.deps.items[i].name : i \in 1..Len(m.deps.items)} \cup
                    {m.refs.items[i].name : i \in 1..Len(m.refs.items)}
    /\ (DetailDelivered(TRUE) /\ last.msg.type = "symbolDetailMsg") =>
            /\ Displays(last.msg.detail)
            /\ m.symbol.name = last.cmd.symbolName

\* h popped the jump stack
WentBack ==
    /\ Pressed({"h"}, modeSymbol)
    /\ last.pre.depth > 0

\* C8: after a jump from X followed by a back action (h with a non-empty
\* stack), the stack is one shorter and every field of the restored detail
\* (name, signature, file path, line, dependencies, references, code, symbol
\* key) equals the value it had in X's detail before the jump, and the back
\* action issues no load.
C8_BackRestoresEveryField ==
    WentBack =>
        /\ Len(m.symbolStack) = last.pre.depth - 1
        /\ m.symbol.name = last.pre.top.name
        /\ m.symbol.signature = last.pre.top.signature
        /\ m.symbol.filePath = last.pre.top.filePath
        /\ m.symbol.line = last.pre.top.line
        /\ m.symbol.deps = last.pre.top.deps
        /\ m.symbol.refs = last.pre.top.refs
        /\ m.symbol.code = last.pre.top.code
        /\ m.symbol.symbolKey = last.pre.top.symbolKey
        /\ last.issued = NoCmd

\* enter or l was pressed on the symbols column of a non-empty symbols list
\* (the handler leaves the three lists as they were)
Confirmed ==
    /\ Pressed({"l", "enter"}, modeThreePane)
    /\ last.pre.active = 2
    /\ Len(m.symbols.items) > 0

\* C9: from Overview mode with the active column = Symbols and a non-empty
\* Symbols list, enter or l issues a detail load for the selected symbol, and
\* when that load's result is delivered the browser is in Detail mode for that
\* symbol with the sub-cursor on the body view (active = 0).
C9_ConfirmEntersDetail ==
    /\ Confirmed =>
            /\ ~last.panic
            /\ last.issued.op = "loadSymbolDetail"
            /\ HasSelected(m.symbols)
            /\ last.issued.symbolName = SelectedItem(m.symbols).name
            /\ last.issued.line = SelectedItem(m.symbols).line
    /\ DetailDelivered(FALSE) =>
            /\ m.mode = modeSymbol
            /\ m.symbol # Nil
            /\ m.symbol.name = last.cmd.symbolName
            /\ m.symbol.line = last.cmd.line
            /\ m.symbol.filePath = last.cmd.filePath
            /\ m.active = 0

\* h was pressed in Detail mode with an empty jump stack
Exited ==
    /\ Pressed({"h"}, modeSymbol)
    /\ last.pre.depth = 0

\* C10: in Detail mode with an empty jump stack, the back action (h) returns
\* the browser to Overview mode with the active column equal to Symbols (2),
\* whatever sub-pane was focused and whatever events led there.
C10_BackExitsToSymbols ==
    Exited => m.mode = modeThreePane /\ m.active = 2 /\ m.symbol = Nil

\* the back action has left Detail mode from the dependencies list
C10_Witness ==
    /\ Exited
    /\ last.pre.active = 1
    /\ m.mode = modeThreePane
    /\ m.active = 2

\* C11: in Overview mode the active column stays in {0, 1, 2} after any
\* sequence of key events: h at column 0 leaves it at 0 and l at column 2
\* leaves it at 2 (no wrap-around in either direction).
C11_NoWrap ==
    /\ m.mode = modeThreePane => m.active \in {0, 1, 2}
    /\ (Pressed({"h"}, modeThreePane) /\ last.pre.active = 0) =>
            m.mode = modeThreePane /\ m.active = 0
    /\ (Pressed({"l"}, modeThreePane) /\ last.pre.active = 2) =>
            m.mode = modeThreePane /\ m.active = 2

\* h was pressed on the first column, with the three lists loaded
C11_Witness ==
    /\ Pressed({"h"}, modeThreePane)
    /\ last.pre.active = 0
    /\ m.active = 0
    /\ Len(m.symbols.items) > 0

\* C15: when a load fails and its error message is delivered, in Overview
\* mode or in Detail mode, the mode, the active column, the contents and
\* selections of every list, the current detail and the jump stack are all
\* unchanged by the handling of that message.
C15_ErrorLeavesState ==
    last.msg.type = "errMsg" =>
        /\ m.mode = last.whole.mode
        /\ m.active = last.whole.active
        /\ m.repos = last.whole.repos
        /\ m.files = last.whole.files
        /\ m.symbols = last.whole.symbols
        /\ m.deps = last.whole.deps
        /\ m.refs = last.whole.refs
        /\ m.symbol = last.whole.symbol
        /\ m.symbolStack = last.whole.symbolStack
        /\ status = "running"

\* an error was delivered in Overview mode while symbols were listed
C15_Witness ==
    /\ last.msg.type = "errMsg"
    /\ last.pre.mode = modeThreePane
    /\ Len(last.whole.symbols.items) > 0
    /\ m = last.whole

\* the last message was a key of Overview mode that moved the selection in
\* this column, or moved the focus onto this column from another one
MovedIn(column) ==
    /\ Pressed({"j", "k"}, modeThreePane)
    /\ last.pre.active = column

LandedOn(column) ==
    \/ Pressed({"h"}, modeThreePane) /\ last.pre.active = column + 1
    \/ Pressed({"l"}, modeThreePane) /\ last.pre.active = column - 1

\* the last message made the program issue this load and did not crash it
IssuedFilesOfSelected ==
    /\ ~last.panic
    /\ HasSelected(m.repos)
    /\ last.issued = LoadFilesCmd(SelectedItem(m.repos).name)

IssuedSymbolsOfSelected ==
    /\ ~last.panic
    /\ HasSelected(m.repos)
    /\ HasSelected(m.files)
    /\ last.issued = LoadSymbolsCmd(SelectedItem(m.repos).name, SelectedItem(m.files).name)

\* C20: in Overview mode, every j/k move in the Repositories column and every
\* focus change that lands on it issues a load of the Files of the selected
\* repository; every j/k move in the Files column and every focus change that
\* lands on it issues a load of the Symbols of the selected file; the Symbols
\* load issued when a Files load completes is for the file selected in the
\* Files column.
C20_SelectionReloads ==
    /\ ((MovedIn(0) \/ LandedOn(0)) /\ Len(m.repos.items) > 0) => IssuedFilesOfSelected
    /\ ((MovedIn(1) \/ LandedOn(1)) /\ Len(m.files.items) > 0) => IssuedSymbolsOfSelected
    /\ (last.msg.type = "filesLoadedMsg" /\ last.pre.mode = modeThreePane
            /\ Len(m.files.items) > 0) => IssuedSymbolsOfSelected

\* Overview mode with no load outstanding
Settled ==
    /\ status = "running"
    /\ m.mode = modeThreePane
    /\ inflight = EmptyBag

\* the Files list is what loadFiles gives for the selected repository
FilesOfSelectedRepo ==
    \E msg \in loadFiles(SelectedItem(m.repos).name) \ {errMsg} :
        m.files.items = msg.items

\* the Symbols list is what loadSymbols gives for the selected file
SymbolsOfSelectedFile ==
    \E msg \in loadSymbols(SelectedItem(m.repos).name, SelectedItem(m.files).name) \ {errMsg} :
        m.symbols.items = msg.items

\* C28: in Overview mode, for every sequence of key events and every order in
\* which the issued loads complete, once no load is outstanding and none
\* failed, the Files list is the file list of the selected repository and the
\* Symbols list is the symbol list of the selected file.
C28_ListsFollowSelection ==
    (Settled /\ HasSelected(m.repos)) =>
        /\ FilesOfSelectedRepo
        /\ HasSelected(m.files) => SymbolsOfSelectedFile

\* this step delivers the error of the load that the jump just made issued
JumpLoadFails ==
    /\ Jumped
    /\ last'.cmd = last.issued
    /\ last'.msg.type = "errMsg"

\* C29: in Detail mode, a jump whose load fails (target symbol not found,
\* unreadable or corrupt RST file) leaves the jump stack exactly as it was
\* before the jump, so the number of back actions needed to return to
\* Overview mode equals the number of jumps that succeeded.
C29_FailedJumpLeavesStack ==
    [][JumpLoadFails =>
          /\ m'.symbolStack = SubSeq(m.symbolStack, 1, last.pre.depth)
          /\ Len(m'.symbolStack) = last.pre.depth]_vars

\* the last handler crashed on the selected item of an empty list: "Enter
\* symbol detail" takes the symbol (list checked), then the file, then the
\* repository; the other handlers that crash take the repository first
TookSelectionOfEmptyList ==
    /\ last.panic
    /\ IF Pressed({"l", "enter"}, modeThreePane) /\ last.pre.active = 2
       THEN /\ HasSelected(m.symbols)
            /\ \/ Len(m.files.items) = 0
               \/ HasSelected(m.files) /\ Len(m.repos.items) = 0
       ELSE Len(m.repos.items) = 0

\* C30: no reachable browser state lets an event handler read the selected
\* item of an empty list: whenever a handler takes the selected repository,
\* file, symbol or dependency/reference entry, that list is non-empty, for
\* every sequence of key events and load results, including loads that return
\* an empty list (an RST with no documents) or that fail.
C30_SelectionNeverOfEmptyList == ~TookSelectionOfEmptyList

(***************************************************************************)
(* The two symbol-detail lookups on one stored symbol                      *)
(***************************************************************************)
MaxNameLen == 3
MaxLine == 2

\* characters of the candidate ids
NameChars == {"M", "T", ".", "(", ")"}
Texts(n) == UNION {[1..k -> NameChars] : k \in 0..n}

\* candidate ids, with and without the package part that ends in a backtick
CandidateIds == Texts(MaxNameLen) \cup {<<"p", Backtick>> \o t : t \in Texts(MaxNameLen)}

QueryName == <<"M">>
QueryFile == "f.go"

StoredSymbol(id, line) ==
    [Symbol |-> id, Kind |-> "Function", Signature |-> "func", Line |-> line,
     Code |-> "body", DependenceOn |-> <<IdG>>, ReferenceBy |-> <<IdF>>]

\* an RST with one document that declares one symbol
OneSymbolRST(id, line) ==
    [Documents |-> [p \in {QueryFile} |-> [k \in {id} |-> StoredSymbol(id, line)]]]

NotFound == [err |-> "not found"]
NotRun == [err |-> "not run"]

\* the test of getSymbolDetails on a candidate's name
DetailsNameMatches(baseName, symbolName) ==
    \/ baseName = symbolName
    \/ HasSuffix(baseName, <<".">> \o symbolName)

\* getSymbolDetails once the RST is read; the map iteration may meet any
\* matching symbol first
getSymbolDetails(r, filePath, symbolName) ==
    IF filePath \notin DOMAIN r.Documents THEN {NotFound}
    ELSE LET doc == r.Documents[filePath]
             found == {symKey \in DOMAIN doc :
                          DetailsNameMatches(extractSymbolName(symKey), symbolName)}
         IN  IF found = {} THEN {NotFound}
             ELSE {[Name |-> extractSymbolName(symKey),
                    Kind |-> doc[symKey].Kind,
                    FilePath |-> filePath,
                    Line |-> 1,
                    Dependencies |-> doc[symKey].DependenceOn,
                    References |-> doc[symKey].ReferenceBy] : symKey \in found}

InitQuery ==
    /\ BuildIdle
    /\ WriteIdle
    /\ NavIdle
    /\ \E id \in CandidateIds : \E line \in 1..MaxLine :
          pin = [id |-> id, line |-> line, rst |-> OneSymbolRST(id, line)]
    /\ pout = [details |-> NotRun, msg |-> NotRun]
    /\ ppc = "call"

\* scip cli get_file_symbol repo f.go M
QueryDetails ==
    /\ ppc = "call"
    /\ pout.details = NotRun
    /\ \E d \in getSymbolDetails(pin.rst, QueryFile, QueryName) :
          pout' = [pout EXCEPT !.details = d]
    /\ ppc' = IF pout.msg = NotRun THEN "call" ELSE "done"
    /\ UNCHANGED pin
    /\ CallStep

\* the browser's load of M in f.go, with no line given
QueryDetailMsg ==
    /\ ppc = "call"
    /\ pout.msg = NotRun
    /\ \E d \in SymbolDetailOf(pin.rst, QueryFile, QueryName, 0) :
          pout' = [pout EXCEPT !.msg = d]
    /\ ppc' = IF pout.details = NotRun THEN "call" ELSE "done"
    /\ UNCHANGED pin
    /\ CallStep

NextQuery ==
    \/ QueryDetails
    \/ QueryDetailMsg

SpecQuery == InitQuery /\ [][NextQuery]_vars

\* the three forms of the name matching contract
ThreeForms(id, q) ==
    \/ extractSymbolName(id) = q
    \/ extractSymbolName(id) = q \o <<"(", ")">>
    \/ HasSuffix(extractSymbolName(id), <<".">> \o q)

DetailsFound == pout.details # NotRun /\ pout.details # NotFound
DetailMsgFound == pout.msg # NotRun /\ pout.msg # errMsg

\* C12: both symbol-detail lookups accept a candidate id for a query name q
\* whenever one of the three forms holds (ExtractName(id) = q, = q + "()", or
\* ends with "." + q), so the two surfaces match the same candidates.
C12_SameCandidates ==
    /\ (pout.details # NotRun /\ ThreeForms(pin.id, QueryName)) => DetailsFound
    /\ (pout.msg # NotRun /\ ThreeForms(pin.id, QueryName)) => DetailMsgFound
    /\ ppc = "done" => (DetailsFound <=> DetailMsgFound)

\* C13: the detail returned by the stateless query for a matched symbol carries
\* the symbol's stored kind, its stored 1-indexed definition line, its
\* dependence_on and reference_by lists and its extracted body, each equal to
\* the value persisted in the RST.
C13_DetailsAsStored ==
    DetailsFound =>
        LET stored == pin.rst.Documents[QueryFile][pin.id]
        IN  /\ pout.details.Kind = stored.Kind
            /\ pout.details.Line = stored.Line
            /\ pout.details.Dependencies = stored.DependenceOn
            /\ pout.details.References = stored.ReferenceBy
            /\ "Code" \in DOMAIN pout.details
            /\ pout.details.Code = stored.Code

(***************************************************************************)
(* loadFiles and loadSymbols, each run twice on one RST                    *)
(***************************************************************************)
ListedIds == {IdF, IdG, IdH}

\* every document of the RST declares the listed ids on the given lines
ListedRST(paths, lineOf) ==
    [Documents |->
        [p \in paths |-> [id \in ListedIds |-> StoredSymbol(id, lineOf[id])]]]

\* the document whose symbols are loaded
ListedFile(r) == CHOOSE p \in DOMAIN r.Documents : \A o \in DOMAIN r.Documents : PathRank(p) <= PathRank(o)

InitLists ==
    /\ BuildIdle
    /\ WriteIdle
    /\ NavIdle
    /\ \E paths \in (SUBSET {"x.go", "y.go", "z.go"}) \ {{}} :
       \E lineOf \in [ListedIds -> 1..MaxLine] :
          pin = ListedRST(paths, lineOf)
    /\ pout = [files |-> [i \in 1..2 |-> NotRun], symbols |-> [i \in 1..2 |-> NotRun]]
    /\ ppc = "call"

\* one of the two runs of loadFiles; each run iterates the map in its own order
LoadFilesRun ==
    /\ ppc = "call"
    /\ \E i \in 1..2 :
          /\ pout.files[i] = NotRun
          /\ \E msg \in FilesOf(pin) : pout' = [pout EXCEPT !.files[i] = msg]
    /\ UNCHANGED <<pin, ppc>>
    /\ CallStep

\* one of the two runs of loadSymbols
LoadSymbolsRun ==
    /\ ppc = "call"
    /\ \E i \in 1..2 :
          /\ pout.symbols[i] = NotRun
          /\ \E msg \in SymbolsOf(pin, ListedFile(pin)) :
                pout' = [pout EXCEPT !.symbols[i] = msg]
    /\ UNCHANGED <<pin, ppc>>
    /\ CallStep

NextLists ==
    \/ LoadFilesRun
    \/ LoadSymbolsRun

SpecLists == InitLists /\ [][NextLists]_vars

BothRun(outs) == outs[1] # NotRun /\ outs[2] # NotRun

\* C14: for two RSTs holding the same documents and symbols but iterated in
\* different map orders, loadFiles yields the identical Files list (ascending
\* by path) and loadSymbols yields the identical Symbols list (ascending by
\* definition line), whatever lines the symbols carry.
C14_ListsIndependentOfMapOrder ==
    /\ BothRun(pout.files) =>
          /\ pout.files[1] = pout.files[2]
          /\ \A i, j \in 1..Len(pout.files[1].items) :
                i < j => PathRank(pout.files[1].items[i].name)
                            < PathRank(pout.files[1].items[j].name)
    /\ BothRun(pout.symbols) =>
          /\ pout.symbols[1] = pout.symbols[2]
          /\ \A i, j \in 1..Len(pout.symbols[1].items) :
                i < j => pout.symbols[1].items[i].line <= pout.symbols[1].items[j].line

(***************************************************************************)
(* treeSitterExtractCode on one syntax tree                                *)
(***************************************************************************)
MaxNodes == 4
SourceLen == 4
RowLen == 2

\* the source file: SourceLen bytes, a newline ending every row of RowLen bytes
SourceCode == [i \in 1..SourceLen |-> i]
RowOf(byte) == byte \div RowLen

\* node types: one of the declaration table of the language, one that is not
NodeTypes == {"function_declaration", "block"}
nodeTypeSet == {"function_declaration", "method_declaration", "type_declaration", "type_spec"}

\* [StartByte, EndByte) of a node
Spans == {sp \in (0..SourceLen) \X (0..SourceLen) : sp[1] < sp[2]}

RECURSIVE AncestorsOrSelf(_, _)
AncestorsOrSelf(parent, i) ==
    IF i = 0 THEN {} ELSE {i} \cup AncestorsOrSelf(parent, parent[i])

\* nodes are numbered in the order of the source; node 1 is the root
ValidShape(n, parent) ==
    /\ parent[1] = 0
    /\ \A i \in 2..n : parent[i] < i
    /\ \A i \in 2..n : parent[i] \in AncestorsOrSelf(parent, i - 1)

\* children lie inside their parent, one after the other
ValidSpans(n, parent, span) ==
    /\ \A i \in 2..n :
          /\ span[parent[i]][1] <= span[i][1]
          /\ span[i][2] <= span[parent[i]][2]
    /\ \A i, j \in 2..n :
          (i < j /\ parent[i] = parent[j]) => span[i][2] <= span[j][1]

Children(t, i) == {c \in 1..t.n : t.parent[c] = i}

\* dfsWalk: fn(node), then the children from first to last
RECURSIVE dfsWalk(_, _)
RECURSIVE WalkChildren(_, _)
dfsWalk(t, node) == <<node>> \o WalkChildren(t, Children(t, node))
WalkChildren(t, cs) ==
    IF cs = {} THEN <<>>
    ELSE LET first == CHOOSE c \in cs : \A o \in cs : c <= o
         IN  dfsWalk(t, first) \o WalkChildren(t, cs \ {first})

\* the callback's test: a declaration whose rows contain the target line
ContainsLine(t, node, targetLine) ==
    /\ t.type[node] \in nodeTypeSet
    /\ targetLine >= RowOf(t.span[node][1]) + 1
    /\ targetLine <= RowOf(t.span[node][2]) + 1

\* codeNode after the callback has run on the first k visited nodes (0: nil)
RECURSIVE CodeNodeAfter(_, _, _, _)
CodeNodeAfter(t, visits, k, targetLine) ==
    IF k = 0 THEN 0
    ELSE IF ContainsLine(t, visits[k], targetLine) THEN visits[k]
    ELSE CodeNodeAfter(t, visits, k - 1, targetLine)

Slice(t, node) == SubSeq(SourceCode, t.span[node][1] + 1, t.span[node][2])

treeSitterExtractCode(t, line) ==
    LET visits == dfsWalk(t, 1)
        codeNode == CodeNodeAfter(t, visits, Len(visits), line)
    IN  IF codeNode = 0 THEN <<>> ELSE Slice(t, codeNode)

InitExtract ==
    /\ BuildIdle
    /\ WriteIdle
    /\ NavIdle
    /\ \E n \in 1..MaxNodes : \E parent \in [1..n -> 0..(n - 1)] :
          /\ ValidShape(n, parent)
          /\ \E span \in [1..n -> Spans] :
                /\ ValidSpans(n, parent, span)
                /\ \E type \in [1..n -> NodeTypes] :
                   \E line \in 1..(RowOf(SourceLen) + 1) :
                      pin = [tree |-> [n |-> n, parent |-> parent, span |-> span,
                                       type |-> type],
                             line |-> line]
    /\ pout = NotRun
    /\ ppc = "call"

ExtractCode ==
    /\ ppc = "call"
    /\ pout' = treeSitterExtractCode(pin.tree, pin.line)
    /\ ppc' = "done"
    /\ UNCHANGED pin
    /\ CallStep

NextExtract ==
    \/ ExtractCode

SpecExtract == InitExtract /\ [][NextExtract]_vars

RECURSIVE Depth(_, _)
Depth(t, node) == IF t.parent[node] = 0 THEN 0 ELSE 1 + Depth(t, t.parent[node])

Declarations(t, line) == {node \in 1..t.n : ContainsLine(t, node, line)}

\* C16: for any syntax tree and any 1-indexed target line,
\* treeSitterExtractCode returns the byte slice [start_byte, end_byte) of the
\* innermost node whose type is in the declaration table and whose rows contain
\* the target line (the deepest such node, not the first visited and not the
\* largest), and returns empty when no such node exists.
C16_InnermostDeclaration ==
    ppc = "done" =>
        LET ds == Declarations(pin.tree, pin.line)
        IN  IF ds = {} THEN pout = <<>>
            ELSE \E node \in ds :
                    /\ \A o \in ds : Depth(pin.tree, o) <= Depth(pin.tree, node)
                    /\ pout = Slice(pin.tree, node)

(***************************************************************************)
(* sanitizeRepoID on one repository id                                     *)
(***************************************************************************)
MaxBodyLen == 3

Https == <<"h", "t", "t", "p", "s", ":", "/", "/">>
Http == <<"h", "t", "t", "p", ":", "/", "/">>
GitAt == <<"g", "i", "t", "@">>

\* characters of the ids after the prefixes
IdChars == {"a", "/", ".", ":", "-", "_"}
IdBodies == UNION {[1..k -> IdChars] : k \in 0..MaxBodyLen}

\* none, one or two of the prefixes in front of a body
Prefixes == {<<>>, Https, Http, GitAt}
ExampleRepoID == <<"h", "t", "t", "p", "s", ":", "/", "/", "g", "i", "t", "h", "u", "b", ".", "c", "o", "m", "/", "a", "c", "m", "e", "/", "w", "i", "d", "g", "e", "t">>
RepoIDs == {p1 \o p2 \o b : p1 \in Prefixes, p2 \in Prefixes, b \in IdBodies}
              \cup {ExampleRepoID}

\* the replacements without the one of "-"
sanitizeRepoIDKeepsDash(repoID) ==
    ReplaceAll(ReplaceAll(ReplaceAll(
        TrimPrefix(TrimPrefix(TrimPrefix(repoID, Https), Http), GitAt),
        "/", "_"), ".", "_"), ":", "_")

sanitizeRepoID(repoID) ==
    LET r1 == TrimPrefix(repoID, Https)
        r2 == TrimPrefix(r1, Http)
        r3 == TrimPrefix(r2, GitAt)
        result1 == ReplaceAll(r3, "/", "_")
        result2 == ReplaceAll(result1, ".", "_")
        result3 == ReplaceAll(result2, ":", "_")
    IN  ReplaceAll(result3, "-", "_")

InitSanitize ==
    /\ BuildIdle
    /\ WriteIdle
    /\ NavIdle
    /\ pin \in RepoIDs
    /\ pout = NotRun
    /\ ppc = "call"

SanitizeRepoID ==
    /\ ppc = "call"
    /\ pout' = sanitizeRepoID(pin)
    /\ ppc' = "done"
    /\ UNCHANGED pin
    /\ CallStep

NextSanitize ==
    \/ SanitizeRepoID

SpecSanitize == InitSanitize /\ [][NextSanitize]_vars

\* s without the prefix p, when s starts with p
Without(s, p) ==
    IF Len(s) >= Len(p) /\ \A i \in 1..Len(p) : s[i] = p[i]
    THEN [i \in 1..(Len(s) - Len(p)) |-> s[i + Len(p)]]
    ELSE s

\* C17: sanitizeRepoID(id) equals id with a leading "https://", then a leading
\* "http://", then a leading "git@" removed, and every '/', '.', ':' and '-'
\* replaced by '_'; every other character is kept in place, the result contains
\* none of those four characters, and
\* sanitizeRepoID("https://github.com/acme/widget") = "github_com_acme_widget".
C17_Sanitized ==
    ppc = "done" =>
        LET rest == Without(Without(Without(pin, Https), Http), GitAt)
        IN  /\ Len(pout) = Len(rest)
            /\ \A i \in 1..Len(rest) :
                  pout[i] = IF rest[i] \in {"/", ".", ":", "-"} THEN "_" ELSE rest[i]
            /\ \A i \in 1..Len(pout) : pout[i] \notin {"/", ".", ":", "-"}
            /\ pin = ExampleRepoID => pout = <<"g", "i", "t", "h", "u", "b", "_", "c", "o", "m", "_", "a", "c", "m", "e", "_", "w", "i", "d", "g", "e", "t">>

\* the example of the naming rule has been sanitized
C17_Witness ==
    /\ ppc = "done"
    /\ pin = ExampleRepoID
    /\ pout = <<"g", "i", "t", "h", "u", "b", "_", "c", "o", "m", "_", "a", "c", "m", "e", "_", "w", "i", "d", "g", "e", "t">>

\* ---------------------------------------------------------------------------
\* Display names of symbol ids (extractSymbolName)
\* ---------------------------------------------------------------------------

MaxIdLen == 4

\* characters of the ids: the backtick, the descriptor punctuation and a letter
NameIdChars == {Backtick, "/", "#", ".", "(", ")", "F"}
NameIds == UNION {[1..k -> NameIdChars] : k \in 0..MaxIdLen}

InitName ==
    /\ BuildIdle
    /\ WriteIdle
    /\ NavIdle
    /\ pin \in NameIds
    /\ pout = NotRun
    /\ ppc = "call"

ExtractSymbolName ==
    /\ ppc = "call"
    /\ pout' = extractSymbolName(pin)
    /\ ppc' = "done"
    /\ UNCHANGED pin
    /\ CallStep

NextName ==
    \/ ExtractSymbolName

SpecName == InitName /\ [][NextName]_vars

\* position of the last backtick of s, 0 when s has none
LastTickOf(s) ==
    IF \E i \in 1..Len(s) : s[i] = Backtick
    THEN CHOOSE i \in 1..Len(s) : s[i] = Backtick /\ \A k \in (i + 1)..Len(s) : s[k] # Backtick
    ELSE 0

\* the text of s after its last backtick
AfterLastTick(s) == [i \in 1..(Len(s) - LastTickOf(s)) |-> s[i + LastTickOf(s)]]

EndsWith(s, x) ==
    Len(s) >= Len(x) /\ \A i \in 1..Len(x) : s[Len(s) - Len(x) + i] = x[i]

EndsWithDescriptorSuffix(s) ==
    EndsWith(s, <<"#">>) \/ EndsWith(s, <<".">>) \/ EndsWith(s, <<"(", ")">>)

\* C18 (as stated): extractSymbolName(id) is id when id has no backtick;
\* otherwise it is the text after the last backtick without a leading "/" and
\* without any trailing "#", "." or "()"; the result of any id never ends with
\* "#", "." or "()".
C18_EveryTrailingRemoved ==
    ppc = "done" =>
        /\ LastTickOf(pin) = 0 => pout = pin
        /\ LastTickOf(pin) # 0 =>
              \E lead \in {<<>>, <<"/">>} : \E k \in 0..Len(pin) :
                  /\ Len(AfterLastTick(pin)) = Len(lead) + Len(pout) + k
                  /\ \A i \in 1..Len(lead) : AfterLastTick(pin)[i] = lead[i]
                  /\ \A i \in 1..Len(pout) : AfterLastTick(pin)[Len(lead) + i] = pout[i]
                  /\ \A i \in (Len(lead) + Len(pout) + 1)..Len(AfterLastTick(pin)) :
                        AfterLastTick(pin)[i] \in {"#", ".", "(", ")"}
        /\ ~EndsWithDescriptorSuffix(pout)

\* C18 (amended): extractSymbolName(id) is id when id has no backtick; otherwise
\* the text after the last backtick is lead \o result \o paren \o dot \o hash,
\* where lead is "/" exactly when that text starts with "/", hash is "#" exactly
\* when the text without lead ends with "#", dot is "." exactly when what is
\* left then ends with ".", and paren is "()" exactly when what is left then
\* ends with "()": one leading "/" and at most one of each trailing mark are
\* removed, in that order.
C18_OneOfEachRemoved ==
    ppc = "done" =>
        /\ LastTickOf(pin) = 0 => pout = pin
        /\ LastTickOf(pin) # 0 =>
              \E lead \in {<<>>, <<"/">>} : \E paren \in {<<>>, <<"(", ")">>} :
              \E dot \in {<<>>, <<".">>} : \E hash \in {<<>>, <<"#">>} :
                  /\ AfterLastTick(pin) = lead \o pout \o paren \o dot \o hash
                  /\ lead = <<>> => (AfterLastTick(pin) = <<>> \/ AfterLastTick(pin)[1] # "/")
                  /\ hash = <<>> => ~EndsWith(pout \o paren \o dot, <<"#">>)
                  /\ dot = <<>> => ~EndsWith(pout \o paren, <<".">>)
                  /\ paren = <<>> => ~EndsWith(pout, <<"(", ")">>)

\* one "." has been removed from the text after the backtick and the "#" in
\* front of it is still there
C18_Witness ==
    /\ ppc = "done"
    /\ pin = <<Backtick, "F", "#", ".">>
    /\ pout = <<"F", "#">>

(***************************************************************************)
(* buildRST: the entry of one declared symbol (symbol pass, in detail)     *)
(***************************************************************************)
MaxOccs == 2
MaxDocStrings == 2

Newline == "\n"

\* scip.SymbolRole bits
SymbolRole_Definition == 1
SymbolRole_ForwardDefinition == 64

\* roles & bit > 0
HasRole(roles, bit) == (roles \div bit) % 2 = 1

inferKindFromRoles(roles) ==
    LET isDefinition == HasRole(roles, SymbolRole_Definition)
        isForwardDefinition == HasRole(roles, SymbolRole_ForwardDefinition)
    IN  IF isDefinition \/ isForwardDefinition THEN "FUNC" ELSE ""

\* a kind test that also takes structs
isCodeExtractableKindWithStruct(kind) ==
    kind \in {"Function", "Method", "FUNC", "Constructor", "Destructor", "Struct"}

isCodeExtractableKind(kind) ==
    kind \in {"Function", "Method", "FUNC", "Constructor", "Destructor"}

\* scip.IsLocalSymbol on an id given by its characters
LocalPrefix == <<"l", "o", "c", "a", "l", " ">>
LocalId == LocalPrefix \o <<"1">>
IsLocalSymbolId(id) == HasPrefix(id, LocalPrefix)

\* the opening and closing marks of a Go code block in a documentation string
GoFenceOpen == <<Backtick, Backtick, Backtick, "g", "o", Newline>>
PythonFenceOpen == <<Backtick, Backtick, Backtick, "p", "y", "t", "h", "o", "n", Newline>>
FenceClose == <<Newline, Backtick, Backtick, Backtick>>

IsGoBlock(doc) == HasPrefix(doc, GoFenceOpen) /\ HasSuffix(doc, FenceClose)

\* the first documentation string, from position i on, that passes the test
\* of the loop; 0 when there is none
RECURSIVE FirstGoBlock(_, _)
FirstGoBlock(documentation, i) ==
    IF i > Len(documentation) THEN 0
    ELSE IF IsGoBlock(documentation[i]) THEN i
    ELSE FirstGoBlock(documentation, i + 1)

KindPrefix(kind) ==
    CASE kind \in {"Function", "Method"} -> <<"f", "u", "n", "c", " ">>
      [] kind = "Struct" -> <<"t", "y", "p", "e", " ">>
      [] kind = "Class" -> <<"c", "l", "a", "s", "s", " ">>
      [] kind = "Interface" -> <<"i", "n", "t", "e", "r", "f", "a", "c", "e", " ">>
      [] kind = "Constant" -> <<"c", "o", "n", "s", "t", " ">>
      [] OTHER -> <<>>

\* a slice expression doc[6 : len(doc)-4] with 6 > len(doc)-4 panics
SlicePanic == [panic |-> TRUE, text |-> <<>>]
Returned(text) == [panic |-> FALSE, text |-> text]

buildSignature(sym) ==
    IF sym.SignatureDocumentation # Nil /\ sym.SignatureDocumentation.Text # <<>>
    THEN Returned(sym.SignatureDocumentation.Text)
    ELSE LET i == FirstGoBlock(sym.Documentation, 1)
         IN  IF i # 0
             THEN LET doc == sym.Documentation[i]
                  IN  IF 6 > Len(doc) - 4 THEN SlicePanic
                      ELSE Returned(SubSeq(doc, 7, Len(doc) - 4))
             ELSE LET name == IF sym.DisplayName = <<>>
                              THEN extractSymbolName(sym.Symbol)
                              ELSE sym.DisplayName
                  IN  Returned(KindPrefix(sym.Kind) \o name)

\* an index in which the last occurrence of an id wins
occIndexLastWins(doc, id) ==
    LET hits == {i \in 1..Len(doc.Occurrences) :
                    /\ Len(doc.Occurrences[i].Range) > 0
                    /\ doc.Occurrences[i].Symbol # <<>>
                    /\ doc.Occurrences[i].Symbol = id}
    IN  IF hits = {} THEN Nil
        ELSE LET final == CHOOSE i \in hits : \A k \in hits : k <= i
             IN  [nil |-> FALSE,
                  line |-> doc.Occurrences[final].Range[1] + 1,
                  kind |-> inferKindFromRoles(doc.Occurrences[final].SymbolRoles)]

\* occIndex[id] of a document: the line and inferred kind of the first
\* occurrence with a non-empty range and this non-empty id; Nil when absent
occIndex(doc, id) ==
    LET hits == {i \in 1..Len(doc.Occurrences) :
                    /\ Len(doc.Occurrences[i].Range) > 0
                    /\ doc.Occurrences[i].Symbol # <<>>
                    /\ doc.Occurrences[i].Symbol = id}
    IN  IF hits = {} THEN Nil
        ELSE LET first == CHOOSE i \in hits : \A k \in hits : i <= k
             IN  [nil |-> FALSE,
                  line |-> doc.Occurrences[first].Range[1] + 1,
                  kind |-> inferKindFromRoles(doc.Occurrences[first].SymbolRoles)]

\* the source file of a document as the extractor finds it
FileTree ==
    [n |-> 2, parent |-> <<0, 1>>, span |-> <<<<0, SourceLen>>, <<RowLen, SourceLen>>>>,
     type |-> <<"block", "function_declaration">>]
ReadFails == [state |-> "read error", tree |-> <<>>]
ParseFails == [state |-> "nil root", tree |-> <<>>]
Parsed == [state |-> "parsed", tree |-> FileTree]
SourceFiles == {ReadFails, ParseFails, Parsed}

\* treeSitterExtractCode on a source file: empty on a failed read or parse
ExtractFromFile(file, line) ==
    IF file.state = "read error" THEN <<>>
    ELSE IF file.state = "nil root" THEN <<>>
    ELSE treeSitterExtractCode(file.tree, line)

Skipped == [status |-> "skipped"]
Crashed == [status |-> "panic"]

\* the body of the loop over doc.Symbols for one symbol
SymbolEntry(doc, sym, projectRoot, file) ==
    IF IsLocalSymbolId(sym.Symbol) THEN Skipped
    ELSE LET signature == buildSignature(sym)
             info == occIndex(doc, sym.Symbol)
             line == IF info # Nil THEN info.line ELSE 0
             kind == IF info # Nil /\ sym.Kind \in {"UnspecifiedKind", ""}
                     THEN info.kind ELSE sym.Kind
             extract == /\ projectRoot # ""
                        /\ line > 0
                        /\ doc.RelativePath # ""
                        /\ isCodeExtractableKind(kind)
             code == IF extract THEN ExtractFromFile(file, line) ELSE <<>>
         IN  IF signature.panic THEN Crashed
             ELSE [status |-> "entry", Symbol |-> sym.Symbol, Kind |-> kind,
                   Signature |-> signature.text, Line |-> line, Code |-> code,
                   Documentation |-> <<>>]

\* inputs
Kinds ==
    {"UnspecifiedKind", "Function", "Method", "Struct", "Class", "Interface",
     "Constant", "Field", "TypeParameter", "Constructor", "Variable"}

PlainDoc == <<"d">>
GoBlock == GoFenceOpen \o <<"g">> \o FenceClose
PythonBlock == PythonFenceOpen \o <<"y">> \o FenceClose
ShortGoBlock == <<Backtick, Backtick, Backtick, "g", "o", Newline, Backtick, Backtick, Backtick>>
DocStrings == {PlainDoc, GoBlock, PythonBlock, ShortGoBlock}

SeqsUpTo(S, n) == UNION {[1..k -> S] : k \in 0..n}

SymbolInfo(id, kind, displayName, documentation, signatureDocumentation) ==
    [Symbol |-> id, Kind |-> kind, DisplayName |-> displayName,
     Documentation |-> documentation,
     SignatureDocumentation |-> signatureDocumentation]

EntryInput(sym, language, relativePath, occurrences, projectRoot, file) ==
    [sym |-> sym,
     doc |-> [Language |-> language, RelativePath |-> relativePath,
              Occurrences |-> occurrences],
     projectRoot |-> projectRoot, file |-> file]

RoleOccurrences ==
    [Symbol : {IdF, IdG, <<>>}, Range : {<<>>, <<0>>, <<1>>},
     SymbolRoles : {0, SymbolRole_Definition, SymbolRole_ForwardDefinition}]

\* occurrence lists against a plain symbol
LineInputs ==
    {EntryInput(SymbolInfo(id, kind, <<>>, <<>>, Nil), "go", "x.go", occs, "", ReadFails) :
        id \in {IdF, <<>>, LocalId}, kind \in {"UnspecifiedKind", "Function"},
        occs \in SeqsUpTo(RoleOccurrences, MaxOccs)}

\* symbol information against a document without occurrences
SignatureInputs ==
    {EntryInput(SymbolInfo(IdF, info[1], info[2], info[3], info[4]), language, "x.go", <<>>, "", ReadFails) :
        info \in Kinds \X {<<>>, <<"N">>} \X SeqsUpTo(DocStrings, MaxDocStrings)
                    \X {Nil, [nil |-> FALSE, Text |-> <<>>], [nil |-> FALSE, Text |-> <<"s">>]},
        language \in {"go", "python"}}

\* kinds, project roots and source files against at most one occurrence
CodeInputs ==
    {EntryInput(SymbolInfo(IdF, in[1], <<>>, <<>>, Nil), "go", in[2], in[3], in[4], in[5]) :
        in \in Kinds \X {"", "x.go", "/abs/x.go"}
                  \X ({<<>>} \cup {<<[Symbol |-> IdF, Range |-> rg, SymbolRoles |-> roles]>> :
                                      rg \in {<<>>, <<0>>, <<1>>}, roles \in {0, SymbolRole_Definition}})
                  \X {"", "/r"} \X SourceFiles}

InitEntry ==
    /\ BuildIdle
    /\ WriteIdle
    /\ NavIdle
    /\ pin \in LineInputs \cup SignatureInputs \cup CodeInputs
    /\ pout = NotRun
    /\ ppc = "call"

BuildEntry ==
    /\ ppc = "call"
    /\ pout' = SymbolEntry(pin.doc, pin.sym, pin.projectRoot, pin.file)
    /\ ppc' = "done"
    /\ UNCHANGED pin
    /\ CallStep

NextEntry ==
    \/ BuildEntry

SpecEntry == InitEntry /\ [][NextEntry]_vars

EntryBuilt == ppc = "done" /\ pout.status = "entry"

\* the positions of the occurrences of the built symbol that have a range
RangedOccurrences ==
    {i \in 1..Len(pin.doc.Occurrences) :
        /\ pin.doc.Occurrences[i].Symbol = pin.sym.Symbol
        /\ pin.doc.Occurrences[i].Range # <<>>}

\* the stored line is row + 1 of the earliest of them, 0 when there is none
LineIsOfFirstOccurrence ==
    IF RangedOccurrences = {} THEN pout.Line = 0
    ELSE \E i \in RangedOccurrences :
            /\ \A k \in RangedOccurrences : i <= k
            /\ pout.Line = pin.doc.Occurrences[i].Range[1] + 1

\* C21 (as stated): the line stored for a symbol is (first range row + 1) of
\* the first occurrence, in the document's occurrence order, that has a
\* non-empty range and the symbol's id, whatever its role bits; later
\* occurrences of the id never change it; with no such occurrence the line is 0.
C21_LineOfFirstOccurrence ==
    EntryBuilt => LineIsOfFirstOccurrence

\* C21 (amended): the same for every symbol whose id is not empty; the entry
\* of a symbol whose id is empty has line 0 whatever the occurrences are.
C21_LineOfFirstNamedOccurrence ==
    EntryBuilt =>
        IF pin.sym.Symbol = <<>> THEN pout.Line = 0 ELSE LineIsOfFirstOccurrence

\* an entry built from a reference on row 1 followed by the definition on
\* row 0: the line is 2
C21_Witness ==
    /\ EntryBuilt
    /\ pin.sym.Symbol = IdF
    /\ pin.doc.Occurrences =
            <<[Symbol |-> IdF, Range |-> <<1>>, SymbolRoles |-> 0],
              [Symbol |-> IdF, Range |-> <<0>>, SymbolRoles |-> SymbolRole_Definition]>>
    /\ pout.Line = 2

\* the strings joined by sep
RECURSIVE Joined(_, _)
Joined(strings, sep) ==
    IF strings = <<>> THEN <<>>
    ELSE IF Len(strings) = 1 THEN strings[1]
    ELSE strings[1] \o sep \o Joined(Tail(strings), sep)

\* C22: the entry of a non-local declared symbol whose input carries one or
\* more documentation strings has documentation equal to those strings joined
\* by newline; with no documentation strings the documentation is empty.
C22_DocumentationJoined ==
    EntryBuilt => pout.Documentation = Joined(pin.sym.Documentation, <<Newline>>)

\* the opening mark of a code block for a language
FenceOpenFor(language) == IF language = "go" THEN GoFenceOpen ELSE PythonFenceOpen

\* doc is opening mark, inner text, closing mark
IsBlockFor(doc, language) ==
    \E inner \in {SubSeq(doc, Len(FenceOpenFor(language)) + 1, Len(doc) - Len(FenceClose))} :
        doc = FenceOpenFor(language) \o inner \o FenceClose

InnerText(doc, language) ==
    SubSeq(doc, Len(FenceOpenFor(language)) + 1, Len(doc) - Len(FenceClose))

PrefixTable ==
    [k \in Kinds |->
        CASE k \in {"Function", "Method"} -> <<"f", "u", "n", "c", " ">>
          [] k = "Struct" -> <<"t", "y", "p", "e", " ">>
          [] k = "Class" -> <<"c", "l", "a", "s", "s", " ">>
          [] k = "Interface" -> <<"i", "n", "t", "e", "r", "f", "a", "c", "e", " ">>
          [] k = "Constant" -> <<"c", "o", "n", "s", "t", " ">>
          [] OTHER -> <<>>]

\* the signature the precedence gives for a symbol of a document
SignatureByPrecedence(sym, language) ==
    LET blocks == {i \in 1..Len(sym.Documentation) : IsBlockFor(sym.Documentation[i], language)}
    IN  IF sym.SignatureDocumentation # Nil /\ sym.SignatureDocumentation.Text # <<>>
        THEN sym.SignatureDocumentation.Text
        ELSE IF blocks # {}
        THEN InnerText(sym.Documentation[CHOOSE i \in blocks : \A k \in blocks : i <= k], language)
        ELSE PrefixTable[sym.Kind] \o
                (IF sym.DisplayName # <<>> THEN sym.DisplayName
                 ELSE extractSymbolName(sym.Symbol))

\* C23: buildSignature follows a strict precedence: the explicit
\* signature-documentation text when non-empty; otherwise the inner text of
\* the first documentation string that is a fenced code block for the
\* document's language; otherwise kind-prefix + name, the prefix "func " for
\* Function/Method, "type " for Struct, "class " for Class, "interface " for
\* Interface, "const " for Constant and empty for every other kind, the name
\* the display name or, when that is empty, extractSymbolName(id).
C23_SignaturePrecedence ==
    (ppc = "done" /\ ~IsLocalSymbolId(pin.sym.Symbol)) =>
        /\ pout.status = "entry"
        /\ pout.Signature = SignatureByPrecedence(pin.sym, pin.doc.Language)

ExtractableKinds == {"Function", "Method", "Constructor", "Destructor", "FUNC"}

\* C24: a symbol entry has a non-empty code field only if its final kind is
\* extractable (Function, Method, Constructor, Destructor or the inferred kind
\* FUNC), its line is greater than 0, a project root was supplied and the
\* extraction returned a non-empty body, which is then the code; a failed file
\* read or parse leaves the code empty and the entry is built all the same.
C24_CodeOnlyWhenExtracted ==
    ppc = "done" =>
        /\ pout.status = "entry" =>
              /\ pout.Code # <<>> =>
                    /\ pout.Kind \in ExtractableKinds
                    /\ pout.Line > 0
                    /\ pin.projectRoot # ""
                    /\ pin.file.state = "parsed"
                    /\ \E node \in 1..pin.file.tree.n :
                          /\ pin.file.tree.type[node] = "function_declaration"
                          /\ pout.Code = Slice(pin.file.tree, node)
              /\ pin.file.state # "parsed" => pout.Code = <<>>
        /\ (pin.file.state # "parsed" /\ pin.projectRoot # "") => pout.status = "entry"

\* an entry of inferred kind FUNC on line 2 of a parsed file carries the
\* body of the function declared there
C24_Witness ==
    /\ EntryBuilt
    /\ pin.sym.Kind = "UnspecifiedKind"
    /\ pout.Kind = "FUNC"
    /\ pout.Line = 2
    /\ pin.file = Parsed
    /\ pout.Code = Slice(FileTree, 2)
    /\ pout.Code # <<>>

(***************************************************************************)
(* The file name of a repository's Go partition: written and looked up     *)
(***************************************************************************)
\* parseMain: fmt.Sprintf("%s.%s.rst", sanitizedRepoID, lang)
RstFileName(repoID, lang) ==
    sanitizeRepoID(repoID) \o <<".">> \o lang \o <<".", "r", "s", "t">>

\* treeRepoMain and findRSTFileByRepo: the file name looked up for repo
findRSTFileByRepo(repo) ==
    LET rstFileName1 == ReplaceAll(repo, ".", "_")
        rstFileName2 == ReplaceAll(rstFileName1, "/", "_")
    IN  rstFileName2 \o GoRstSuffix

InitFileName ==
    /\ BuildIdle
    /\ WriteIdle
    /\ NavIdle
    /\ pin \in RepoIDs
    /\ pout = NotRun
    /\ ppc = "call"

\* parse writes the Go partition of the repository, then the query commands
\* and the browser look it up by the same id
WriteThenLookUp ==
    /\ ppc = "call"
    /\ pout' = [written |-> RstFileName(pin, <<"g", "o">>),
                cli |-> findRSTFileByRepo(pin),
                tui |-> repoToRSTFile(pin)]
    /\ ppc' = "done"
    /\ UNCHANGED pin
    /\ CallStep

NextFileName ==
    \/ WriteThenLookUp

SpecFileName == InitFileName /\ [][NextFileName]_vars

\* C26: for every repository identifier r, the file name the query layer
\* opens for r (r with "." and "/" replaced by "_", plus ".go.rst") equals the
\* file name parseMain wrote for r's Go partition (sanitizeRepoID(r) plus
\* ".go.rst"): an RST written for r is found when queried by the same r.
C26_WrittenNameIsQueriedName ==
    ppc = "done" =>
        /\ pout.cli = pout.written
        /\ pout.tui = pout.written

(***************************************************************************)
(* From a listed file name to the repository entry and back                *)
(***************************************************************************)
MaxFileBodyLen == 3

\* the file names of the index directory that end in ".rst": the names parse
\* writes for the Go and python partitions of a repository, and other names
LangCodes == {<<"g", "o">>, <<"p", "y", "t", "h", "o", "n">>}
FileBodies == UNION {[1..k -> {"a", "_", "."}] : k \in 0..MaxFileBodyLen}
RstFileNames ==
    {RstFileName(r, lang) : r \in RepoIDs, lang \in LangCodes}
        \cup {b \o <<".", "r", "s", "t">> : b \in FileBodies}

InitListed ==
    /\ BuildIdle
    /\ WriteIdle
    /\ NavIdle
    /\ pin \in RstFileNames
    /\ pout = NotRun
    /\ ppc = "call"

\* loadRepos lists the file as a repository; loadFiles of that repository
\* opens a file
ListThenOpen ==
    /\ ppc = "call"
    /\ HasSuffix(pin, <<".", "r", "s", "t">>)
    /\ pout' = [name |-> rstFileToRepoName(pin),
                opened |-> repoToRSTFile(rstFileToRepoName(pin))]
    /\ ppc' = "done"
    /\ UNCHANGED pin
    /\ CallStep

NextListed ==
    \/ ListThenOpen

SpecListed == InitListed /\ [][NextListed]_vars

\* C27: for every file name f ending in ".rst" that loadRepos lists as a
\* repository, repoToRSTFile(rstFileToRepoName(f)) = f: the Files of a listed
\* repository are loaded from the file that produced the entry, for every
\* language partition.
C27_ListedNameRoundTrip ==
    ppc = "done" => pout.opened = pin

====
